---- MODULE Spec2Model ----
(***************************************************************************)
(* AgentFlow prompt pipeline: adapters (agentflow/adapters), the LangGraph *)
(* shim (langgraph/graph.py), the pipeline stages (agentflow/cli/          *)
(* pipeline.py), flow-spec extraction and synthetic nodes (flow_spec.py),  *)
(* self-evaluation (evaluation.py), the plan document (plan.py) and the    *)
(* CLI entry (entry.py).                                                   *)
(*                                                                         *)
(* Representation.  A Python str is a sequence of string tokens (Text).    *)
(* A dict is a function with a string domain, {} and [] are both << >>.    *)
(* Values whose Python type varies at run time (decoded JSON) are tagged   *)
(* records: [str |-> t], [num |-> n], [list |-> s], [obj |-> d]; Python's  *)
(* None is the record None.  Floats are integers in hundredths.            *)
(***************************************************************************)
EXTENDS Integers, Sequences, FiniteSets, TLC

(* ------------------------------ bounds -------------------------------- *)
MaxNodes == 2
MaxEdges == 1
MaxStderrLen == 2
MaxDepEdges == 3
MaxLines == 3
MaxBlocks == 3
MaxAflLen == 2
MaxJustificationLen == 3
MaxTextLines == 3

(* --------------------------- Python values ---------------------------- *)
None == [none |-> TRUE]
JStr(t) == [str |-> t]
JNum(n) == [num |-> n]
JList(s) == [list |-> s]
JObj(d) == [obj |-> d]

IsNone(v) == "none" \in DOMAIN v
IsStr(v) == "str" \in DOMAIN v
IsNum(v) == "num" \in DOMAIN v
IsList(v) == "list" \in DOMAIN v
IsDict(v) == "obj" \in DOMAIN v

Has(d, k) == k \in DOMAIN d
DictGet(d, k) == IF k \in DOMAIN d THEN d[k] ELSE None
\* mutant of Update: the update drops the notes it does not set itself
UpdateDroppingNotes(d, u) == u @@ [k \in DOMAIN d \ {"notes"} |-> d[k]]

\* d.update(u)
Update(d, u) == u @@ d

\* bool(v) of a tagged value
Truthy(v) ==
  IF IsNone(v) THEN FALSE
  ELSE IF IsStr(v) THEN v.str # << >>
  ELSE IF IsNum(v) THEN v.num # 0
  ELSE IF IsList(v) THEN v.list # << >>
  ELSE IF IsDict(v) THEN DOMAIN v.obj # {}
  ELSE TRUE

\* a or b
PyOr(a, b) == IF Truthy(a) THEN a ELSE b

(* ------------------------------- text --------------------------------- *)
WhitespaceTokens == {" ", "\n"}

RECURSIVE LStrip(_)
LStrip(t) ==
  IF t # << >> /\ Head(t) \in WhitespaceTokens THEN LStrip(Tail(t)) ELSE t

RECURSIVE RStrip(_)
RStrip(t) ==
  IF t # << >> /\ t[Len(t)] \in WhitespaceTokens
  THEN RStrip(SubSeq(t, 1, Len(t) - 1)) ELSE t

\* str.strip()
Strip(t) == RStrip(LStrip(t))

\* needle in haystack
Contains(haystack, needle) ==
  \E i \in 1..(Len(haystack) - Len(needle) + 1) :
    SubSeq(haystack, i, i + Len(needle) - 1) = needle

\* str(v) of a tagged value that is a string, or of the literal ""
PyStr(v) == IF IsStr(v) THEN v.str ELSE << >>

(* ------------------------------ messages ------------------------------ *)
\* An assistant message: its text (body), what the fenced-json regex of
\* extract_flow_spec_from_message finds in it (fence: None, or the decoded
\* candidate), and what json.loads of the whole text yields (doc).
Message(body, fence, doc) == [body |-> body, fence |-> fence, doc |-> doc]
EmptyMessage == Message(<< >>, None, None)
MessageTruthy(m) == m.body # << >>

BadJson == [bad |-> TRUE]
Decoded(v) == [val |-> v]

\* text.strip() / "\n\n".join(texts) for messages
MsgStrip(m) == Message(Strip(m.body), m.fence, m.doc)

RECURSIVE MsgJoin(_)
MsgJoin(ms) ==
  IF ms = << >> THEN EmptyMessage
  ELSE IF Len(ms) = 1 THEN ms[1]
  ELSE LET rest == MsgJoin(Tail(ms))
       IN Message(ms[1].body \o <<"\n", "\n">> \o rest.body,
                  IF IsNone(ms[1].fence) THEN rest.fence ELSE ms[1].fence,
                  None)

\* str.lower() on the tokens that occur in upper case
Lower(tok) ==
  CASE tok = "TEXT" -> "text"
    [] tok = "Text" -> "text"
    [] tok = "Flow" -> "flow"
    [] tok = "Score" -> "score"
    [] tok = "SCORE" -> "score"
    [] tok = "Reason" -> "reason"
    [] tok = "Justification" -> "justification"
    [] tok = "Rationale" -> "rationale"
    [] OTHER -> tok

(* ------------------------- exceptions, results ------------------------ *)
\* outcome of a call: a returned value or a raised exception; spawned is
\* the number of external processes the call started
Return(v, n) == [raised |-> FALSE, value |-> v, spawned |-> n]
Raise(cls, msg, n) == [raised |-> TRUE, cls |-> cls, msg |-> msg, spawned |-> n]

\* CodexResult / CopilotResult / ClaudeResult / GeminiResult / MockResult
Result(message, events, usage) ==
  [message |-> message, events |-> events, usage |-> usage]

(* ------------------------ external process ---------------------------- *)
\* subprocess.run(...) ends in a CompletedProcess or raises TimeoutExpired
Completed(rc, out, err) == [returncode |-> rc, stdout |-> out, stderr |-> err]
TimedOut == [timeout |-> TRUE]
IsTimedOut(proc) == "timeout" \in DOMAIN proc
TimeoutExpired == <<"Command timed out after ", "120", " seconds">>

\* one entry of stdout.splitlines(): a blank line, text that is not JSON
\* (with the message that text reads as), or a JSON object
BlankLine == [blank |-> TRUE]
BadLine(m) == [bad |-> m]
EventLine(e) == [event |-> e]
IsBlank(line) == "blank" \in DOMAIN line
IsBad(line) == "bad" \in DOMAIN line
IsEvent(line) == "event" \in DOMAIN line

LineBody(line) ==
  IF IsBlank(line) THEN << >>
  ELSE IF IsBad(line) THEN line.bad.body
  ELSE <<"{json}">>

RECURSIVE JoinLines(_)
JoinLines(lines) ==
  IF lines = << >> THEN << >>
  ELSE IF Len(lines) = 1 THEN LineBody(lines[1])
  ELSE LineBody(lines[1]) \o <<"\n">> \o JoinLines(Tail(lines))

RECURSIVE FirstFence(_)
FirstFence(lines) ==
  IF lines = << >> THEN None
  ELSE IF IsBad(lines[1]) /\ ~IsNone(lines[1].bad.fence) THEN lines[1].bad.fence
  ELSE FirstFence(Tail(lines))

\* completed.stdout.strip() read as a message
RawStdoutMessage(stdout) ==
  LET nonblank == SelectSeq(stdout, LAMBDA l : ~IsBlank(l))
  IN Message(Strip(JoinLines(stdout)),
             FirstFence(stdout),
             IF Len(nonblank) # 1 THEN None
             ELSE IF IsBad(nonblank[1]) THEN nonblank[1].bad.doc
             ELSE Decoded(JObj(<< >>)))

(* ------------------------------ adapters ------------------------------ *)
\* item.get("type") in (...) and the message update of the JSON-Lines loops
ItemMessage(event, kinds, message_text) ==
  LET item == IF Has(event, "item") THEN event["item"] ELSE << >>
  IN IF DOMAIN item # {} /\ Has(item, "type") /\ item["type"] \in kinds
     THEN (IF Has(item, "text") THEN item["text"] ELSE EmptyMessage)
     ELSE message_text

EventUsage(event, usage) ==
  IF Has(event, "type") /\ event["type"] = "turn.completed"
  THEN (IF Has(event, "usage") THEN event["usage"] ELSE << >>)
  ELSE usage

\* for line in completed.stdout.splitlines(): ... of CodexCLIAdapter.run
RECURSIVE CodexParseLines(_, _)
CodexParseLines(lines, acc) ==
  IF lines = << >> THEN acc
  ELSE LET line == Head(lines)
       IN IF IsBlank(line) THEN CodexParseLines(Tail(lines), acc)
          ELSE IF IsBad(line) THEN [acc EXCEPT !.failed = TRUE]
          ELSE CodexParseLines(Tail(lines),
                 [failed |-> FALSE,
                  events |-> Append(acc.events, line.event),
                  message_text |-> ItemMessage(line.event, {"agent_message"}, acc.message_text),
                  usage |-> EventUsage(line.event, acc.usage)])

\* mutant of LenientParseLines: the events parsed before the bad line stay
RECURSIVE LenientParseLinesKeepEvents(_, _, _)
LenientParseLinesKeepEvents(lines, stdout, acc) ==
  IF lines = << >> THEN acc
  ELSE LET line == Head(lines)
       IN IF IsBlank(line) THEN LenientParseLinesKeepEvents(Tail(lines), stdout, acc)
          ELSE IF IsBad(line)
            THEN [acc EXCEPT !.message_text = RawStdoutMessage(stdout)]
          ELSE LenientParseLinesKeepEvents(Tail(lines), stdout,
                 [failed |-> FALSE,
                  events |-> Append(acc.events, line.event),
                  message_text |-> ItemMessage(line.event,
                                     {"agent_message", "assistant_message"},
                                     acc.message_text),
                  usage |-> EventUsage(line.event, acc.usage)])

\* for line in completed.stdout.splitlines(): ... of CopilotCLIAdapter.run
\* and GeminiCLIAdapter.run
RECURSIVE LenientParseLines(_, _, _)
LenientParseLines(lines, stdout, acc) ==
  IF lines = << >> THEN acc
  ELSE LET line == Head(lines)
       IN IF IsBlank(line) THEN LenientParseLines(Tail(lines), stdout, acc)
          ELSE IF IsBad(line)
            THEN [acc EXCEPT !.events = << >>,
                             !.message_text = RawStdoutMessage(stdout)]
          ELSE LenientParseLines(Tail(lines), stdout,
                 [failed |-> FALSE,
                  events |-> Append(acc.events, line.event),
                  message_text |-> ItemMessage(line.event,
                                     {"agent_message", "assistant_message"},
                                     acc.message_text),
                  usage |-> EventUsage(line.event, acc.usage)])

ParseStart == [failed |-> FALSE, events |-> << >>, message_text |-> None, usage |-> << >>]

\* mutant of CodexCLIAdapterRun: the exit error leaves out standard error
CodexCLIAdapterRunWithoutStderr(settings, prompt, proc) ==
  IF ~settings.openai_api_key
  THEN Raise("CodexCLIError",
             <<"OPENAI_API_KEY must be set in the environment or Settings for Codex adapter.">>, 0)
  ELSE IF IsTimedOut(proc) THEN Raise("TimeoutExpired", TimeoutExpired, 1)
  ELSE IF proc.returncode # 0
  THEN Raise("CodexCLIError",
             <<"Codex CLI exited with ", ToString(proc.returncode)>>, 1)
  ELSE LET parsed == CodexParseLines(proc.stdout, ParseStart)
       IN IF parsed.failed
          THEN Raise("CodexCLIError", <<"Failed to parse Codex JSON event: ">>, 1)
          ELSE IF IsNone(parsed.message_text)
          THEN Raise("CodexCLIError",
                     <<"Codex CLI completed without emitting an agent_message event.">>, 1)
          ELSE Return(Result(parsed.message_text, parsed.events, parsed.usage), 1)

CodexCLIAdapterRun(settings, prompt, proc) ==
  IF ~settings.openai_api_key
  THEN Raise("CodexCLIError",
             <<"OPENAI_API_KEY must be set in the environment or Settings for Codex adapter.">>, 0)
  ELSE IF IsTimedOut(proc) THEN Raise("TimeoutExpired", TimeoutExpired, 1)
  ELSE IF proc.returncode # 0
  THEN Raise("CodexCLIError",
             <<"Codex CLI exited with ", ToString(proc.returncode), ": ">>
               \o Strip(proc.stderr), 1)
  ELSE LET parsed == CodexParseLines(proc.stdout, ParseStart)
       IN IF parsed.failed
          THEN Raise("CodexCLIError", <<"Failed to parse Codex JSON event: ">>, 1)
          ELSE IF IsNone(parsed.message_text)
          THEN Raise("CodexCLIError",
                     <<"Codex CLI completed without emitting an agent_message event.">>, 1)
          ELSE Return(Result(parsed.message_text, parsed.events, parsed.usage), 1)

CopilotCLIAdapterRun(settings, prompt, proc) ==
  IF IsTimedOut(proc) THEN Raise("TimeoutExpired", TimeoutExpired, 1)
  ELSE IF proc.returncode # 0
  THEN Raise("CopilotCLIError",
             <<"Copilot CLI exited with ", ToString(proc.returncode), ": ">>
               \o Strip(proc.stderr), 1)
  ELSE LET parsed == LenientParseLines(proc.stdout, proc.stdout, ParseStart)
           message_text == IF IsNone(parsed.message_text)
                           THEN RawStdoutMessage(proc.stdout)
                           ELSE parsed.message_text
       IN Return(Result(message_text, parsed.events, parsed.usage), 1)

GeminiCLIAdapterRun(settings, prompt, proc) ==
  IF IsTimedOut(proc) THEN Raise("TimeoutExpired", TimeoutExpired, 1)
  ELSE IF proc.returncode # 0
  THEN Raise("GeminiCLIError",
             <<"Gemini CLI exited with ", ToString(proc.returncode), ": ">>
               \o Strip(proc.stderr), 1)
  ELSE LET parsed == LenientParseLines(proc.stdout, proc.stdout, ParseStart)
           message_text == IF IsNone(parsed.message_text)
                           THEN RawStdoutMessage(proc.stdout)
                           ELSE parsed.message_text
       IN Return(Result(message_text, parsed.events, parsed.usage), 1)

\* mutant of ClaudeTextParts: the text of a block is appended as it is
RECURSIVE ClaudeTextPartsUntrimmed(_)
ClaudeTextPartsUntrimmed(content) ==
  IF content = << >> THEN << >>
  ELSE LET block == Head(content)
           type == IF Has(block, "type") THEN block["type"] ELSE ""
           rest == ClaudeTextPartsUntrimmed(Tail(content))
       IN IF Lower(type) = "text" /\ Has(block, "text")
             /\ MessageTruthy(MsgStrip(block["text"]))
          THEN <<block["text"]>> \o rest
          ELSE rest

\* the text blocks of payload["content"], stripped, empty ones dropped
RECURSIVE ClaudeTextParts(_)
ClaudeTextParts(content) ==
  IF content = << >> THEN << >>
  ELSE LET block == Head(content)
           type == IF Has(block, "type") THEN block["type"] ELSE ""
           rest == ClaudeTextParts(Tail(content))
       IN IF Lower(type) = "text" /\ Has(block, "text")
             /\ MessageTruthy(MsgStrip(block["text"]))
          THEN <<MsgStrip(block["text"])>> \o rest
          ELSE rest

\* mutant of ClaudeCLIAdapterRun: the process is started before the key is checked
ClaudeCLIAdapterRunSpawnFirst(settings, prompt, proc) ==
  IF ~settings.anthropic_api_key
  THEN Raise("ClaudeCLIError",
             <<"ANTHROPIC_API_KEY must be set in the environment or Settings for Claude adapter.">>, 1)
  ELSE IF IsTimedOut(proc) THEN Raise("TimeoutExpired", TimeoutExpired, 1)
  ELSE IF proc.returncode # 0
  THEN Raise("ClaudeCLIError",
             <<"Anthropic CLI exited with ", ToString(proc.returncode), ": ">>
               \o Strip(proc.stderr), 1)
  ELSE LET nonblank == SelectSeq(proc.stdout, LAMBDA l : ~IsBlank(l))
       IN IF nonblank = << >>
          THEN Raise("ClaudeCLIError", <<"Anthropic CLI produced no output.">>, 1)
          ELSE IF Len(nonblank) # 1 \/ IsBad(nonblank[1])
          THEN Raise("ClaudeCLIError", <<"Failed to parse Anthropic JSON response: ">>, 1)
          ELSE LET payload == nonblank[1].event
                   usage == IF Has(payload, "usage") /\ ~IsNone(payload["usage"])
                            THEN payload["usage"] ELSE << >>
                   content == IF Has(payload, "content") THEN payload["content"] ELSE << >>
                   joined == MsgStrip(MsgJoin(ClaudeTextParts(content)))
                   message_text ==
                     IF MessageTruthy(joined) THEN joined
                     ELSE IF Has(payload, "message")
                             /\ MessageTruthy(MsgStrip(payload["message"]))
                     THEN MsgStrip(payload["message"])
                     ELSE EmptyMessage
               IN IF ~MessageTruthy(message_text)
                  THEN Raise("ClaudeCLIError",
                             <<"Anthropic CLI response did not contain assistant text content.">>, 1)
                  ELSE Return(Result(message_text, << >>, usage), 1)


ClaudeCLIAdapterRun(settings, prompt, proc) ==
  IF ~settings.anthropic_api_key
  THEN Raise("ClaudeCLIError",
             <<"ANTHROPIC_API_KEY must be set in the environment or Settings for Claude adapter.">>, 0)
  ELSE IF IsTimedOut(proc) THEN Raise("TimeoutExpired", TimeoutExpired, 1)
  ELSE IF proc.returncode # 0
  THEN Raise("ClaudeCLIError",
             <<"Anthropic CLI exited with ", ToString(proc.returncode), ": ">>
               \o Strip(proc.stderr), 1)
  ELSE LET nonblank == SelectSeq(proc.stdout, LAMBDA l : ~IsBlank(l))
       IN IF nonblank = << >>
          THEN Raise("ClaudeCLIError", <<"Anthropic CLI produced no output.">>, 1)
          ELSE IF Len(nonblank) # 1 \/ IsBad(nonblank[1])
          THEN Raise("ClaudeCLIError", <<"Failed to parse Anthropic JSON response: ">>, 1)
          ELSE LET payload == nonblank[1].event
                   usage == IF Has(payload, "usage") /\ ~IsNone(payload["usage"])
                            THEN payload["usage"] ELSE << >>
                   content == IF Has(payload, "content") THEN payload["content"] ELSE << >>
                   joined == MsgStrip(MsgJoin(ClaudeTextParts(content)))
                   message_text ==
                     IF MessageTruthy(joined) THEN joined
                     ELSE IF Has(payload, "message")
                             /\ MessageTruthy(MsgStrip(payload["message"]))
                     THEN MsgStrip(payload["message"])
                     ELSE EmptyMessage
               IN IF ~MessageTruthy(message_text)
                  THEN Raise("ClaudeCLIError",
                             <<"Anthropic CLI response did not contain assistant text content.">>, 1)
                  ELSE Return(Result(message_text, << >>, usage), 1)

\* json.dumps(value) as tokens: inside a string a newline is written as a
\* backslash and an n, every other token of the string as it is
EscapeToken(tok) == IF tok = "\n" THEN "\\n" ELSE tok
Escape(t) == [i \in 1..Len(t) |-> EscapeToken(t[i])]

RECURSIVE Dumps(_), DumpsItems(_), DumpsMembers(_, _)
Dumps(v) ==
  IF IsStr(v) THEN <<"\"">> \o Escape(v.str) \o <<"\"">>
  ELSE IF IsNum(v) THEN <<ToString(v.num)>>
  ELSE IF IsList(v) THEN <<"[">> \o DumpsItems(v.list) \o <<"]">>
  ELSE IF IsDict(v) THEN <<"{">> \o DumpsMembers(v.obj, DOMAIN v.obj) \o <<"}">>
  ELSE <<"null">>
DumpsItems(items) ==
  IF items = << >> THEN << >>
  ELSE IF Len(items) = 1 THEN Dumps(items[1])
  ELSE Dumps(items[1]) \o <<",", " ">> \o DumpsItems(Tail(items))
DumpsMembers(d, keys) ==
  IF keys = {} THEN << >>
  ELSE LET k == CHOOSE x \in keys : TRUE
       IN <<"\"", k, "\"", ":", " ">> \o Dumps(d[k])
            \o (IF keys = {k} THEN << >> ELSE <<",", " ">> \o DumpsMembers(d, keys \ {k}))

\* fence_pattern.search(message): the tokens that begin with three backticks,
\* \s*, and the non-greedy group (\{[\s\S]*?\}) followed by \s* and a fence
FenceTokens == {"<fence json>", "<fence>"}
SkipSpace(body, i) ==
  CHOOSE j \in i..(Len(body) + 1) :
    /\ \A k \in i..(j - 1) : body[k] \in WhitespaceTokens
    /\ j = Len(body) + 1 \/ body[j] \notin WhitespaceTokens
ClosesAt(body, j) ==
  /\ body[j] = "}"
  /\ LET k == SkipSpace(body, j + 1)
     IN k <= Len(body) /\ body[k] \in FenceTokens
MatchFrom(body, i) ==
  LET p == SkipSpace(body, i + 1)
      s == IF p > i + 1 /\ p <= Len(body) /\ body[p] = "flow_spec"
           THEN SkipSpace(body, p + 1) ELSE p
      ends == {j \in (s + 1)..Len(body) : ClosesAt(body, j)}
  IN IF s <= Len(body) /\ body[s] = "{" /\ ends # {}
     THEN SubSeq(body, s, CHOOSE j \in ends : \A other \in ends : j <= other)
     ELSE << >>
FenceSearch(body) ==
  LET starts == {i \in 1..Len(body) : body[i] = "<fence json>" /\ MatchFrom(body, i) # << >>}
  IN IF starts = {} THEN << >>
     ELSE MatchFrom(body, CHOOSE i \in starts : \A other \in starts : i <= other)

\* json.loads(candidate): the value whose text the candidate is, if any
Loads(candidate, values) ==
  IF \E v \in values : Dumps(v) = candidate
  THEN Decoded(CHOOSE v \in values : Dumps(v) = candidate)
  ELSE BadJson

\* a message given by its text
TextMessage(body, values) ==
  LET found(candidate) == IF candidate = << >> THEN None ELSE Loads(candidate, values)
  IN Message(body, found(FenceSearch(body)), None)

\* the JSON values whose text a prompt may quote
PromptJsonValues == {JObj([nodes |-> JList(<<JObj([id |-> JStr(<<"a">>)])>>)])}

\* "flow" in prompt.lower()
FlowTokens == {"flow", "workflow", "flow_spec"}
MentionsFlow(prompt) == \E i \in 1..Len(prompt) : Lower(prompt[i]) \in FlowTokens

\* mutant of MockFlowSpec: the canned flow spec has no nodes and no edges
MockFlowSpecEmpty == JObj([nodes |-> JList(<< >>), edges |-> JList(<< >>)])

MockFlowSpec ==
  JObj([nodes |-> JList(<<
          JObj([id |-> JStr(<<"start">>), type |-> JStr(<<"action">>),
                label |-> JStr(<<"Start">>), name |-> JStr(<<"start">>)]),
          JObj([id |-> JStr(<<"greet">>), type |-> JStr(<<"action">>),
                label |-> JStr(<<"Say Hello">>), name |-> JStr(<<"greet">>)]),
          JObj([id |-> JStr(<<"end">>), type |-> JStr(<<"action">>),
                label |-> JStr(<<"End">>), name |-> JStr(<<"end">>)])>>),
        edges |-> JList(<<
          JObj([source |-> JStr(<<"start">>), target |-> JStr(<<"greet">>),
                label |-> JStr(<<"begin">>)]),
          JObj([source |-> JStr(<<"greet">>), target |-> JStr(<<"end">>),
                label |-> JStr(<<"finish">>)])>>)])

MockAflText == <<"start();", "\n", "greet();", "\n", "end();", "\n">>

MockAdapterRun(settings, prompt, proc) ==
  LET message ==
        IF MentionsFlow(prompt)
        THEN Message(<<"Here is a simple ", "flow", " for your request:", "\n", "\n",
                       "<fence json>", "\n", "{json}", "\n", "<fence>", "\n", "\n",
                       "This flow has three steps: start, greet (say hello), and end.">>,
                     Decoded(JObj([flow_spec |-> MockFlowSpec,
                                   agentflowlanguage |-> JStr(MockAflText)])),
                     None)
        ELSE TextMessage(<<"Mock response: I received your prompt '">>
                           \o SubSeq(prompt, 1, IF Len(prompt) < 50 THEN Len(prompt) ELSE 50)
                           \o <<"...' and here is a canned reply. This is a test response from the mock adapter.">>,
                         PromptJsonValues)
      events == <<[type |-> "thread.started"],
                  [type |-> "item.completed",
                   item |-> [type |-> "agent_message", text |-> message]],
                  [type |-> "turn.completed",
                   usage |-> [input_tokens |-> 10, output_tokens |-> 25]]>>
      usage == [input_tokens |-> 10, output_tokens |-> 25, total_tokens |-> 35]
  IN Return(Result(message, events, usage), 0)

\* adapter.run(prompt) of the adapter selected by name
AdapterRun(name, settings, prompt, proc) ==
  CASE name = "codex" -> CodexCLIAdapterRun(settings, prompt, proc)
    [] name = "copilot" -> CopilotCLIAdapterRun(settings, prompt, proc)
    [] name = "claude" -> ClaudeCLIAdapterRun(settings, prompt, proc)
    [] name = "gemini" -> GeminiCLIAdapterRun(settings, prompt, proc)
    [] name = "mock" -> MockAdapterRun(settings, prompt, proc)

(* ---------------------------- flow_spec.py ---------------------------- *)
FlowSpecCompilerPrompt(pseudo_code) ==
  <<"You are the AgentFlowLanguage compiler. Convert the provided pseudo code ",
    "or natural language routine into a structured ", "flow", " description.",
    "\n", "Pseudo-code input:", "\n", "<<<", "\n">>
    \o Strip(pseudo_code) \o <<"\n", ">>>", "\n">>

\* Optional[Dict]: the payload, or None
extract_flow_spec_from_message(message) ==
  IF ~MessageTruthy(message) THEN None
  ELSE IF IsNone(message.fence) THEN None
  ELSE IF message.fence = BadJson THEN None
  ELSE LET loaded == message.fence.val
           wrapped == IF IsDict(loaded) THEN DictGet(loaded.obj, "flow_spec") ELSE None
           afl_candidate == IF IsDict(loaded)
                            THEN DictGet(loaded.obj, "agentflowlanguage") ELSE None
           afl_text == IF IsStr(afl_candidate) THEN Strip(afl_candidate.str) ELSE << >>
           flow_data == IF IsNone(wrapped) THEN loaded ELSE wrapped
       IN IF ~IsDict(flow_data) THEN None
          ELSE LET nodes == DictGet(flow_data.obj, "nodes")
               IN IF ~IsList(nodes) \/ nodes.list = << >> THEN None
                  ELSE LET payload == [flow_spec |-> flow_data, raw_json |-> message.fence]
                       IN IF afl_text # << >>
                          THEN Update(payload, [agentflowlanguage |-> afl_text])
                          ELSE payload

\* compile_flow_spec_from_prompt(adapter, pseudo_code); a key whose value
\* would be None (agentflowlanguage) is left out of the returned dict
compile_flow_spec_from_prompt(adapter, settings, pseudo_code, proc) ==
  LET respond(run) ==
        IF run.raised /\ run.cls = "CodexCLIError"
        THEN Return([error |-> <<"AgentFlowLanguage compilation failed: ">> \o run.msg,
                     flow_spec_payload |-> None,
                     message |-> EmptyMessage,
                     events |-> << >>,
                     usage |-> << >>,
                     source |-> "agentflowlanguage_compiler"], run.spawned)
        ELSE IF run.raised THEN run
        ELSE LET compilation == run.value
                 payload == extract_flow_spec_from_message(compilation.message)
                 response == [flow_spec_payload |-> payload,
                              message |-> compilation.message,
                              events |-> compilation.events,
                              usage |-> compilation.usage,
                              source |-> "agentflowlanguage_compiler"]
             IN IF ~IsNone(payload)
                THEN Return(IF Has(payload, "agentflowlanguage")
                            THEN Update(response,
                                   [agentflowlanguage |-> payload["agentflowlanguage"]])
                            ELSE response, run.spawned)
                ELSE Return(Update(response,
                       [error |-> <<"Compiler response did not contain a valid flow_spec.">>]),
                       run.spawned)
  IN respond(AdapterRun(adapter, settings, FlowSpecCompilerPrompt(pseudo_code), proc))

PrimaryNodeId == <<"codex_execution">>
FlowId(raw) == <<"flow::">> \o raw

\* str(edge.get(a) or edge.get(b) or "").strip()
EitherKey(d, a, b) == Strip(PyStr(PyOr(PyOr(DictGet(d, a), DictGet(d, b)), JStr(<< >>))))

\* dependency_map after the loop over edges_data: target -> list of sources
RECURSIVE DependencyMap(_, _)
DependencyMap(edges, map) ==
  IF edges = << >> THEN map
  ELSE LET edge == Head(edges)
       IN IF ~IsDict(edge) THEN DependencyMap(Tail(edges), map)
          ELSE LET raw_source == EitherKey(edge.obj, "source", "from")
                   raw_target == EitherKey(edge.obj, "target", "to")
               IN IF raw_source = << >> \/ raw_target = << >>
                  THEN DependencyMap(Tail(edges), map)
                  ELSE DependencyMap(Tail(edges),
                         (raw_target :> Append(IF raw_target \in DOMAIN map
                                               THEN map[raw_target] ELSE << >>,
                                               raw_source)) @@ map)

\* mutant of DedupKeepFirst: the list is left as it is
DedupKeepAll(xs, seen) == seen \o xs

\* list(dict.fromkeys(xs)): duplicates removed, first occurrence kept
RECURSIVE DedupKeepFirst(_, _)
DedupKeepFirst(xs, seen) ==
  IF xs = << >> THEN seen
  ELSE IF \E i \in 1..Len(seen) : seen[i] = Head(xs)
       THEN DedupKeepFirst(Tail(xs), seen)
       ELSE DedupKeepFirst(Tail(xs), Append(seen, Head(xs)))

\* depends_on of one synthetic node
FlowDependsOn(dependency_map, raw_id) ==
  LET depends_on_raw == IF raw_id \in DOMAIN dependency_map
                        THEN dependency_map[raw_id] ELSE << >>
      sources == SelectSeq(depends_on_raw, LAMBDA s : s # << >>)
      depends_on == [i \in 1..Len(sources) |-> FlowId(sources[i])]
  IN DedupKeepFirst(<<PrimaryNodeId>> \o depends_on, << >>)

\* the loop over nodes_data of build_flow_nodes
RECURSIVE FlowNodesLoop(_, _, _, _)
FlowNodesLoop(entries, dependency_map, run_started, run_finished) ==
  IF entries = << >> THEN << >>
  ELSE LET entry == Head(entries)
           rest == FlowNodesLoop(Tail(entries), dependency_map, run_started, run_finished)
       IN IF ~IsDict(entry) THEN rest
          ELSE LET raw_id == EitherKey(entry.obj, "id", "name")
                   label == Strip(PyStr(PyOr(PyOr(DictGet(entry.obj, "label"),
                                                  DictGet(entry.obj, "name")),
                                             JStr(raw_id))))
                   stripped_type == Strip(PyStr(PyOr(DictGet(entry.obj, "type"),
                                                     JStr(<<"flow">>))))
                   node_type == IF stripped_type = << >> THEN <<"flow">> ELSE stripped_type
               IN IF raw_id = << >> THEN rest
                  ELSE <<[id |-> FlowId(raw_id),
                          type |-> node_type,
                          summary |-> label,
                          depends_on |-> FlowDependsOn(dependency_map, raw_id),
                          status |-> "succeeded",
                          attempt |-> 1,
                          inputs |-> [flow_spec_node |-> entry],
                          outputs |-> [source |-> "flow_spec", node_id |-> raw_id],
                          metrics |-> [flow_spec_type |-> node_type],
                          timeline |-> [started_at |-> run_started,
                                        ended_at |-> run_finished,
                                        duration_seconds |-> run_finished - run_started],
                          history |-> <<[attempt_id |-> 1, timestamp |-> run_finished,
                                         status |-> "succeeded"]>>]>> \o rest

\* build_flow_nodes(flow_spec, run_started=, run_finished=); flow_spec is
\* the decoded JSON object
build_flow_nodes(flow_spec, run_started, run_finished) ==
  LET nodes_data == DictGet(flow_spec.obj, "nodes")
      edges_data == IF Has(flow_spec.obj, "edges") THEN flow_spec.obj["edges"] ELSE JList(<< >>)
  IN IF ~IsList(nodes_data) THEN << >>
     ELSE FlowNodesLoop(nodes_data.list,
                        IF IsList(edges_data)
                        THEN DependencyMap(edges_data.list, << >>) ELSE << >>,
                        run_started, run_finished)


(* ---------------------------- evaluation.py --------------------------- *)
\* decimal number tokens and their value in hundredths
NumVal == [tok \in {"0", "0.0", "0.5", "0.85", "1", "1.0", "7", "85"} |->
             CASE tok = "0" -> 0 [] tok = "0.0" -> 0 [] tok = "0.5" -> 50
               [] tok = "0.85" -> 85 [] tok = "1" -> 100 [] tok = "1.0" -> 100
               [] tok = "7" -> 700 [] tok = "85" -> 8500]
IsNumeric(tok) == tok \in DOMAIN NumVal

\* message.splitlines()
RECURSIVE SplitLines(_, _)
SplitLines(text, current) ==
  IF text = << >> THEN (IF current = << >> THEN << >> ELSE <<current>>)
  ELSE IF Head(text) = "\n" THEN <<current>> \o SplitLines(Tail(text), << >>)
  ELSE SplitLines(Tail(text), Append(current, Head(text)))

\* mutant of LStripBullets: leading bullets stay
LStripBulletsKept(t) == t

\* line.strip().lstrip("-*").strip()
RECURSIVE LStripBullets(_)
LStripBullets(t) ==
  IF t # << >> /\ Head(t) \in {"-", "*"} THEN LStripBullets(Tail(t)) ELSE t

Normalized(line) == Strip(LStripBullets(Strip(line)))

StartsWithAny(t, words) == t # << >> /\ Lower(Head(t)) \in words

\* re.search(r"([0-9]+(?:\.[0-9]+)?)", normalized): None, or the number
RECURSIVE FirstNumber(_)
FirstNumber(t) ==
  IF t = << >> THEN None
  ELSE IF IsNumeric(Head(t)) THEN JNum(NumVal[Head(t)])
  ELSE FirstNumber(Tail(t))

\* normalized.split(":", 1)[1].strip() if ":" in normalized else normalized
RECURSIVE AfterColon(_, _)
AfterColon(t, whole) ==
  IF t = << >> THEN whole
  ELSE IF Head(t) = ":" THEN Strip(Tail(t))
  ELSE AfterColon(Tail(t), whole)

\* the inner loop over lines[index + 1:]
RECURSIVE FollowLines(_)
FollowLines(lines) ==
  IF lines = << >> THEN << >>
  ELSE LET follow_normalized == Normalized(Head(lines))
       IN IF Strip(Head(lines)) = << >> THEN FollowLines(Tail(lines))
          ELSE IF StartsWithAny(follow_normalized,
                                {"score", "reason", "justification", "rationale"})
          THEN << >>
          ELSE <<follow_normalized>> \o FollowLines(Tail(lines))

\* the outer loop of parse_plaintext_evaluation: score and justification_parts
RECURSIVE PlaintextLoop(_, _)
PlaintextLoop(lines, score) ==
  IF lines = << >> THEN [score |-> score, parts |-> << >>]
  ELSE LET normalized == Normalized(Head(lines))
       IN IF Strip(Head(lines)) = << >> THEN PlaintextLoop(Tail(lines), score)
          ELSE IF StartsWithAny(normalized, {"score"})
          THEN PlaintextLoop(Tail(lines),
                 IF IsNone(FirstNumber(normalized)) THEN score ELSE FirstNumber(normalized))
          ELSE IF Len(normalized) = 1 /\ IsNumeric(normalized[1])
          THEN PlaintextLoop(Tail(lines), JNum(NumVal[normalized[1]]))
          ELSE IF StartsWithAny(normalized, {"reason", "justification", "rationale"})
          THEN LET text == AfterColon(normalized, normalized)
               IN [score |-> score,
                   parts |-> (IF text = << >> THEN << >> ELSE <<text>>)
                               \o FollowLines(Tail(lines))]
          ELSE PlaintextLoop(Tail(lines), score)

\* " ".join(parts)
RECURSIVE JoinSpace(_)
JoinSpace(parts) ==
  IF parts = << >> THEN << >>
  ELSE IF Len(parts) = 1 THEN parts[1]
  ELSE parts[1] \o <<" ">> \o JoinSpace(Tail(parts))

\* Optional[Dict]: {"score", "justification"} or None
parse_plaintext_evaluation(message) ==
  LET scan == PlaintextLoop(SplitLines(message.body, << >>), None)
      justification == Strip(JoinSpace(scan.parts))
  IN IF IsNone(scan.score) THEN None
     ELSE [score |-> scan.score,
           justification |-> IF justification = << >> THEN None ELSE JStr(justification)]

\* float(score) inside try/except (TypeError, ValueError)
ToFloat(score) ==
  IF IsNone(score) THEN None
  ELSE IF IsNum(score) THEN score
  ELSE IF IsStr(score) /\ Len(Strip(score.str)) = 1 /\ IsNumeric(Strip(score.str)[1])
  THEN JNum(NumVal[Strip(score.str)[1]])
  ELSE None

\* parse_evaluation_payload(message): the dict, None, or AttributeError
\* when the decoded JSON is not an object (payload.get on a non-dict)
parse_evaluation_payload(message) ==
  IF IsNone(message.doc) \/ message.doc = BadJson
  THEN Return(parse_plaintext_evaluation(message), 0)
  ELSE LET payload == message.doc.val
       IN IF ~IsDict(payload)
          THEN Raise("AttributeError", <<"object has no attribute 'get'">>, 0)
          ELSE LET score == ToFloat(DictGet(payload.obj, "score"))
                   chosen == PyOr(DictGet(payload.obj, "justification"),
                                  DictGet(payload.obj, "reasoning"))
                   justification == IF IsNone(chosen) THEN None
                                    ELSE JStr(Strip(PyStr(chosen)))
               IN Return([score |-> score, justification |-> justification], 0)

EvaluationPrompt(prompt, response) ==
  <<"You are an impartial self-evaluation judge.", "\n", "User:", "\n", "<<<", "\n">>
    \o prompt \o <<"\n", ">>>", "\n", "Assistant:", "\n", "<<<", "\n">>
    \o response.body \o <<"\n", ">>>", "\n">>

\* perform_self_evaluation(adapter, prompt, response)
perform_self_evaluation(adapter, settings, prompt, response, proc) ==
  LET evaluate(run) ==
        IF run.raised /\ run.cls = "CodexCLIError"
        THEN Return([error |-> <<"Self-evaluation failed: ">> \o run.msg], run.spawned)
        ELSE IF run.raised THEN run
        ELSE LET evaluation_result == run.value
                 parsed == parse_evaluation_payload(evaluation_result.message)
                 payload == [raw_message |-> evaluation_result.message,
                             events |-> evaluation_result.events,
                             usage |-> evaluation_result.usage]
             IN IF parsed.raised THEN [parsed EXCEPT !.spawned = run.spawned]
                ELSE IF ~IsNone(parsed.value)
                THEN Return(Update(payload, parsed.value), run.spawned)
                ELSE Return(Update(payload,
                       [error |-> <<"Self-evaluation response was not valid JSON.">>]),
                       run.spawned)
  IN evaluate(AdapterRun(adapter, settings, EvaluationPrompt(prompt, response), proc))

\* build_evaluation_outputs(evaluation_payload)
build_evaluation_outputs(evaluation_payload) ==
  LET score == IF Has(evaluation_payload, "score")
                  /\ ~IsNone(evaluation_payload["score"])
               THEN [score |-> evaluation_payload["score"]] ELSE << >>
      justification == IF Has(evaluation_payload, "justification")
                          /\ Truthy(evaluation_payload["justification"])
                       THEN [justification |-> evaluation_payload["justification"]]
                       ELSE << >>
      error == IF Has(evaluation_payload, "error") /\ evaluation_payload["error"] # << >>
               THEN [error |-> evaluation_payload["error"]] ELSE << >>
  IN score @@ justification @@ error @@
     [raw_message |-> IF Has(evaluation_payload, "raw_message")
                      THEN evaluation_payload["raw_message"] ELSE EmptyMessage,
      events |-> IF Has(evaluation_payload, "events")
                 THEN evaluation_payload["events"] ELSE << >>,
      usage |-> IF Has(evaluation_payload, "usage")
                THEN evaluation_payload["usage"] ELSE << >>]

(* ------------------------------- plan.py ------------------------------ *)
DictTruthy(d) == ~IsNone(d) /\ DOMAIN d # {}

\* mutant of build_metrics: the node metrics hold the usage alone
build_metrics_usage_only(usage, evaluation_payload) == [usage |-> usage]

\* build_metrics(usage, evaluation_payload)
build_metrics(usage, evaluation_payload) ==
  IF ~DictTruthy(evaluation_payload) THEN [usage |-> usage]
  ELSE (IF Has(evaluation_payload, "score") /\ ~IsNone(evaluation_payload["score"])
        THEN [evaluation_score |-> evaluation_payload["score"]] ELSE << >>)
       @@ (IF Has(evaluation_payload, "usage") /\ DOMAIN evaluation_payload["usage"] # {}
           THEN [evaluation_usage |-> evaluation_payload["usage"]] ELSE << >>)
       @@ (IF Has(evaluation_payload, "error") /\ evaluation_payload["error"] # << >>
           THEN [evaluation_error |-> evaluation_payload["error"]] ELSE << >>)
       @@ [usage |-> usage]

\* mutant of CountStatus: every node is counted, whatever its status
CountStatusAny(nodes, status) == Len(nodes)

\* sum(1 for item in nodes if item.get("status") == status)
CountStatus(nodes, status) ==
  Cardinality({i \in 1..Len(nodes) : nodes[i]["status"] = status})

\* mutant of PrimaryNodeStatus: the node status is compared with the plan's word
PrimaryNodeStatusPlanWord(node_status) == IF node_status = "completed" THEN "succeeded" ELSE "failed"

\* "succeeded" if node_status == "succeeded" else "failed"
PrimaryNodeStatus(node_status) == IF node_status = "succeeded" THEN "succeeded" ELSE "failed"

\* mutant of PlanNodes: the primary node is appended after the synthetic ones
PlanNodesPrimaryLast(node, synthetic_nodes) == synthetic_nodes \o <<node>>

\* nodes = [node]; if synthetic_nodes: nodes.extend(synthetic_nodes)
PlanNodes(node, synthetic_nodes) == <<node>> \o synthetic_nodes

\* mutant of RollupCounts: only the primary node is tallied
RollupCountsPrimaryOnly(nodes) ==
  [succeeded |-> CountStatus(<<nodes[1]>>, "succeeded"),
   failed |-> CountStatus(<<nodes[1]>>, "failed")]

\* success_count / failure_count as stored under rollup.counts
RollupCounts(nodes) ==
  [succeeded |-> CountStatus(nodes, "succeeded"),
   failed |-> CountStatus(nodes, "failed")]

\* build_plan_document(...); synthetic_nodes None is passed as << >>
build_plan_document(plan_id, prompt, summary, plan_status, node_status, outputs, usage, events, error_payload, run_started, run_finished, duration_seconds, notes, evaluation_payload, synthetic_nodes) ==
  LET node_base ==
        [id |-> PrimaryNodeId,
         type |-> <<"agent">>,
         summary |-> IF summary = << >> THEN <<"Codex execution">> ELSE summary,
         depends_on |-> << >>,
         status |-> PrimaryNodeStatus(node_status),
         attempt |-> 1,
         inputs |-> [prompt |-> prompt],
         outputs |-> outputs,
         metrics |-> build_metrics(usage, evaluation_payload),
         timeline |-> [started_at |-> run_started,
                       ended_at |-> run_finished,
                       duration_seconds |-> duration_seconds],
         history |-> <<[attempt_id |-> 1, timestamp |-> run_finished,
                        status |-> PrimaryNodeStatus(node_status),
                        notes |-> notes]>>]
      node == IF DictTruthy(error_payload)
              THEN Update(node_base, [error |-> error_payload]) ELSE node_base
      nodes == PlanNodes(node, synthetic_nodes)
      document ==
        [plan_id |-> plan_id,
         name |-> IF summary = << >> THEN <<"Codex execution">> ELSE summary,
         description |-> prompt,
         created_at |-> run_started,
         last_updated |-> run_finished,
         status |-> plan_status,
         nodes |-> nodes,
         rollup |-> [completion_percentage |-> IF plan_status = "completed" THEN 100 ELSE 0,
                     counts |-> RollupCounts(nodes)]]
      metadata == IF events # << >>
                  THEN [metadata |-> [codex_events_count |-> Len(events)]] ELSE << >>
      eval_metrics ==
        IF ~DictTruthy(evaluation_payload) THEN << >>
        ELSE (IF Has(evaluation_payload, "score") /\ ~IsNone(evaluation_payload["score"])
              THEN [self_evaluation_score |-> evaluation_payload["score"]] ELSE << >>)
             @@ (IF Has(evaluation_payload, "error") /\ evaluation_payload["error"] # << >>
                 THEN [self_evaluation_error |-> evaluation_payload["error"]] ELSE << >>)
  IN document @@ metadata
       @@ (IF DOMAIN eval_metrics # {} THEN [eval_metrics |-> eval_metrics] ELSE << >>)

(* ----------------------------- pipeline.py ---------------------------- *)
\* state.get(key) / state.get(key, default)
Get(state, key, default) == IF key \in DOMAIN state THEN state[key] ELSE default

\* what a stage function does: the update it returns or the exception it
\* lets through, the adapter calls it made and the processes they spawned
StageOk(update, calls, n) == [raised |-> FALSE, update |-> update, calls |-> calls, spawned |-> n]
StageRaise(exc, calls) ==
  [raised |-> TRUE, cls |-> exc.cls, msg |-> exc.msg, calls |-> calls, spawned |-> exc.spawned]

\* mutant of timing_update: the update also clears the usage
timing_update_clearing_usage(state, now) ==
  [run_finished |-> now, duration_seconds |-> now - state["run_started"], usage |-> << >>]

timing_update(state, now) ==
  [run_finished |-> now, duration_seconds |-> now - state["run_started"]]

initialize(state, now) ==
  StageOk([run_started |-> now,
           run_finished |-> now,
           duration_seconds |-> 0,
           plan_status |-> "pending",
           node_status |-> "pending",
           outputs |-> << >>,
           usage |-> << >>,
           events |-> << >>,
           notes |-> <<"Codex invocation pending.">>], << >>, 0)

invoke_model(state, adapter, settings, proc, now) ==
  LET record(run) ==
        IF run.raised /\ run.cls = "CodexCLIError"
        THEN StageOk(Update([plan_status |-> "failed",
                             node_status |-> "failed",
                             error_payload |-> [message |-> run.msg],
                             notes |-> <<"Codex invocation failed: ">> \o run.msg,
                             outputs |-> [events |-> << >>],
                             events |-> << >>,
                             usage |-> << >>], timing_update(state, now)),
                     <<"primary">>, run.spawned)
        ELSE IF run.raised THEN StageRaise(run, <<"primary">>)
        ELSE LET result == run.value
             IN StageOk(Update([plan_status |-> "completed",
                                node_status |-> "succeeded",
                                codex_result |-> result,
                                outputs |-> [message |-> result.message,
                                             events |-> result.events],
                                events |-> result.events,
                                usage |-> result.usage,
                                notes |-> <<"Codex invocation succeeded.">>],
                               timing_update(state, now)),
                        <<"primary">>, run.spawned)
  IN record(AdapterRun(adapter, settings, state["prompt"], proc))

parse_flow_spec(state) ==
  IF Get(state, "plan_status", "") # "completed" THEN StageOk(<< >>, << >>, 0)
  ELSE IF ~Has(state, "codex_result") THEN StageOk(<< >>, << >>, 0)
  ELSE LET flow_spec_payload == extract_flow_spec_from_message(state["codex_result"].message)
           outputs == Get(state, "outputs", << >>)
       IN IF IsNone(flow_spec_payload) THEN StageOk([outputs |-> outputs], << >>, 0)
          ELSE LET with_spec == Update(outputs,
                                  [flow_spec |-> flow_spec_payload["flow_spec"],
                                   flow_spec_raw |-> flow_spec_payload["raw_json"],
                                   flow_spec_source |-> "assistant"])
                   has_afl == Has(flow_spec_payload, "agentflowlanguage")
               IN StageOk((IF has_afl
                           THEN [afl_text |-> flow_spec_payload["agentflowlanguage"]]
                           ELSE << >>)
                          @@ [flow_spec_payload |-> flow_spec_payload,
                              flow_spec_source |-> "assistant",
                              outputs |-> IF has_afl
                                          THEN Update(with_spec,
                                                 [agentflowlanguage |->
                                                    flow_spec_payload["agentflowlanguage"]])
                                          ELSE with_spec],
                          << >>, 0)

\* need_compile of maybe_compile
NeedCompile(state) ==
  \/ ~Has(state, "flow_spec_payload")
  \/ (Get(state, "request_afl", FALSE) /\ Get(state, "afl_text", << >>) = << >>)

maybe_compile(state, adapter, settings, proc, now) ==
  IF Get(state, "plan_status", "") # "completed" THEN StageOk(<< >>, << >>, 0)
  ELSE IF ~NeedCompile(state) THEN StageOk(<< >>, << >>, 0)
  ELSE LET merge(compiled) ==
             IF compiled.raised THEN StageRaise(compiled, <<"compiler">>)
             ELSE LET compiler_details == compiled.value
                      outputs1 == Update(Get(state, "outputs", << >>),
                        [flow_spec_compiler |->
                           [message |-> compiler_details["message"],
                            usage |-> compiler_details["usage"],
                            events |-> compiler_details["events"],
                            source |-> compiler_details["source"]]])
                      outputs2 == IF Has(compiler_details, "error")
                                     /\ compiler_details["error"] # << >>
                                  THEN Update(outputs1,
                                         [flow_spec_compiler_error |-> compiler_details["error"]])
                                  ELSE outputs1
                      compiled_payload == compiler_details["flow_spec_payload"]
                      source == compiler_details["source"]
                      got == ~IsNone(compiled_payload)
                      outputs3 == IF got
                                  THEN Update(outputs2,
                                         [flow_spec |-> compiled_payload["flow_spec"],
                                          flow_spec_raw |-> compiled_payload["raw_json"],
                                          flow_spec_source |-> source])
                                  ELSE outputs2
                      afl1 == IF got /\ Has(compiled_payload, "agentflowlanguage")
                              THEN compiled_payload["agentflowlanguage"] ELSE << >>
                      afl2 == IF Has(compiler_details, "agentflowlanguage")
                                 /\ compiler_details["agentflowlanguage"] # << >>
                              THEN compiler_details["agentflowlanguage"] ELSE afl1
                      outputs4 == IF afl2 # << >>
                                  THEN Update(outputs3, [agentflowlanguage |-> afl2])
                                  ELSE outputs3
                  IN StageOk(timing_update(state, now)
                             @@ (IF afl2 # << >> THEN [afl_text |-> afl2] ELSE << >>)
                             @@ (IF got THEN [flow_spec_payload |-> compiled_payload,
                                              flow_spec_source |-> source]
                                 ELSE << >>)
                             @@ [outputs |-> outputs4],
                             <<"compiler">>, compiled.spawned)
       IN merge(compile_flow_spec_from_prompt(adapter, settings, state["prompt"], proc))

self_evaluate(state, adapter, settings, proc, now) ==
  IF Get(state, "plan_status", "") # "completed" THEN StageOk(<< >>, << >>, 0)
  ELSE IF ~Has(state, "codex_result") THEN StageOk(<< >>, << >>, 0)
  ELSE LET merge(evaluated) ==
             IF evaluated.raised THEN StageRaise(evaluated, <<"evaluation">>)
             ELSE LET evaluation_payload == evaluated.value
                  IN IF ~DictTruthy(evaluation_payload)
                     THEN StageOk(<< >>, <<"evaluation">>, evaluated.spawned)
                     ELSE
                     StageOk(Update([evaluation_payload |-> evaluation_payload,
                                     outputs |-> Update(Get(state, "outputs", << >>),
                                       [evaluation |-> build_evaluation_outputs(evaluation_payload)])],
                                    timing_update(state, now)),
                             <<"evaluation">>, evaluated.spawned)
       IN merge(perform_self_evaluation(adapter, settings, state["prompt"],
                                        state["codex_result"].message, proc))

synthesize_nodes(state) ==
  IF Get(state, "plan_status", "") # "completed" THEN StageOk(<< >>, << >>, 0)
  ELSE IF ~Has(state, "flow_spec_payload") THEN StageOk(<< >>, << >>, 0)
  ELSE LET flow_spec_payload == state["flow_spec_payload"]
           synthetic_nodes == build_flow_nodes(flow_spec_payload["flow_spec"],
                                state["run_started"],
                                Get(state, "run_finished", state["run_started"]))
           outputs == Get(state, "outputs", << >>)
           outputs1 == IF synthetic_nodes # << >> /\ ~Has(outputs, "flow_spec")
                       THEN Update(outputs, [flow_spec |-> flow_spec_payload["flow_spec"]])
                       ELSE outputs
           outputs2 == IF synthetic_nodes # << >> /\ Has(state, "flow_spec_source")
                       THEN Update(outputs1, [flow_spec_source |-> state["flow_spec_source"]])
                       ELSE outputs1
       IN StageOk([synthetic_nodes |-> synthetic_nodes, outputs |-> outputs2], << >>, 0)

build_plan(state, now) ==
  LET outputs0 == Get(state, "outputs", << >>)
      outputs1 == IF Has(outputs0, "events") THEN outputs0
                  ELSE Update(outputs0, [events |-> Get(state, "events", << >>)])
      outputs == IF Has(state, "flow_spec_source") /\ Has(outputs1, "flow_spec")
                 THEN Update(outputs1, [flow_spec_source |-> state["flow_spec_source"]])
                 ELSE outputs1
      run_started == state["run_started"]
      previous_finished == Get(state, "run_finished", run_started)
      run_finished == IF now > previous_finished THEN now ELSE previous_finished
      duration_seconds == IF now > previous_finished THEN run_finished - run_started
                          ELSE Get(state, "duration_seconds", run_finished - run_started)
      plan_document ==
        build_plan_document(state["plan_id"], state["prompt"], state["summary"],
                            Get(state, "plan_status", "failed"),
                            Get(state, "node_status", "failed"),
                            outputs,
                            Get(state, "usage", << >>),
                            Get(state, "events", << >>),
                            Get(state, "error_payload", None),
                            run_started, run_finished, duration_seconds,
                            Get(state, "notes", << >>),
                            Get(state, "evaluation_payload", None),
                            Get(state, "synthetic_nodes", << >>))
  IN StageOk([plan_document |-> plan_document,
              outputs |-> outputs,
              run_finished |-> run_finished,
              duration_seconds |-> duration_seconds], << >>, 0)

post_invoke_route(state) ==
  IF Get(state, "plan_status", "") = "failed" THEN "failure" ELSE "success"

(* --------------------------- langgraph/graph.py ----------------------- *)
END == "END"
EntryPoint == "initialize"

\* mutant of Edges: self_evaluate wired before maybe_compile
EdgesEvaluateFirst ==
  [initialize |-> "invoke_model",
   parse_flow_spec |-> "self_evaluate",
   self_evaluate |-> "maybe_compile",
   maybe_compile |-> "synthesize_nodes",
   synthesize_nodes |-> "build_plan",
   build_plan |-> END]

\* graph.add_edge(...)
Edges ==
  [initialize |-> "invoke_model",
   parse_flow_spec |-> "maybe_compile",
   maybe_compile |-> "self_evaluate",
   self_evaluate |-> "synthesize_nodes",
   synthesize_nodes |-> "build_plan",
   build_plan |-> END]

\* mutant of ConditionalMapping: the two routes are exchanged
ConditionalMappingSwapped == [failure |-> "parse_flow_spec", success |-> "build_plan"]

\* graph.add_conditional_edges("invoke_model", post_invoke_route, {...})
ConditionalMapping == [failure |-> "build_plan", success |-> "parse_flow_spec"]

\* next_node of CompiledPipeline.invoke, after state.update(update)
NextNode(node, state) ==
  IF node = "invoke_model" THEN ConditionalMapping[post_invoke_route(state)]
  ELSE Edges[node]

(* ------------------------------ entry.py ------------------------------ *)
\* _resolve_adapter: the registry of selectable adapters and error classes
AdapterRegistry ==
  [mock |-> "MockAdapterError",
   copilot |-> "CopilotCLIError",
   codex |-> "CodexCLIError",
   claude |-> "ClaudeCLIError"]

\* summary = prompt[:80].replace("\n", " ").strip() or "Ad-hoc Codex execution"
Summary(prompt) ==
  LET head == SubSeq(prompt, 1, IF Len(prompt) < 80 THEN Len(prompt) ELSE 80)
      replaced == [i \in 1..Len(head) |-> IF head[i] = "\n" THEN " " ELSE head[i]]
  IN IF Strip(replaced) = << >> THEN <<"Ad-hoc Codex execution">> ELSE Strip(replaced)

PlanId == "plan-agentflow"

\* final_state built by `except adapter_error_class as exc`
AdapterErrorState(exc, timestamp, now) ==
  [plan_status |-> "failed",
   node_status |-> "failed",
   error_payload |-> [message |-> exc.msg],
   notes |-> <<"Adapter invocation failed: ">> \o exc.msg,
   run_started |-> timestamp,
   run_finished |-> now,
   duration_seconds |-> now - timestamp,
   outputs |-> [events |-> << >>],
   usage |-> << >>,
   events |-> << >>]

\* mutant of UnexpectedErrorPayload: the message is str(exc) alone
UnexpectedErrorPayloadBare(exc) == [message |-> exc.msg]

\* error_payload built by `except Exception as exc`
UnexpectedErrorPayload(exc) ==
  [message |-> <<"Unexpected pipeline error: ", exc.cls, ": ">> \o exc.msg]

\* plan_document built by `except Exception as exc`
UnexpectedErrorDocument(exc, prompt, summary, timestamp, now) ==
  build_plan_document(PlanId, prompt, summary, "failed", "failed",
                      [events |-> << >>], << >>, << >>,
                      UnexpectedErrorPayload(exc),
                      timestamp, now, now - timestamp,
                      <<"Pipeline error: ", exc.cls>>, None, << >>)

\* plan_document built when final_state holds none (lines 151-176)
FallbackDocument(final_state, prompt, summary, timestamp) ==
  LET outputs == Get(final_state, "outputs", << >>)
      events == Get(final_state, "events", << >>)
      run_started == Get(final_state, "run_started", timestamp)
      run_finished == Get(final_state, "run_finished", run_started)
  IN build_plan_document(PlanId, prompt, summary,
                         Get(final_state, "plan_status", "failed"),
                         Get(final_state, "node_status", "failed"),
                         IF DOMAIN outputs # {} THEN outputs ELSE [events |-> events],
                         Get(final_state, "usage", << >>),
                         events,
                         Get(final_state, "error_payload", None),
                         run_started, run_finished,
                         Get(final_state, "duration_seconds", run_finished - run_started),
                         Get(final_state, "notes", <<"Pipeline produced no plan document.">>),
                         Get(final_state, "evaluation_payload", None),
                         Get(final_state, "synthetic_nodes", << >>))

\* mutant of write_plan: the document is built but never written
write_plan_skipped(documents, plan_document) == documents

\* write_plan(target_path, plan_document): one more document on disk
write_plan(documents, plan_document) == Append(documents, plan_document)

\* mutant of ExitCode: a recorded self-evaluation error also fails the run
ExitCodeOnAnyDiagnostic(run_result) ==
  IF \/ run_result.plan_status = "failed"
     \/ /\ Has(run_result.final_state, "evaluation_payload")
        /\ Has(run_result.final_state["evaluation_payload"], "error")
  THEN 1 ELSE 0

\* the return value of handle_prompt after the run (lines 331-334)
ExitCode(run_result) == IF run_result.plan_status = "failed" THEN 1 ELSE 0

\* afl_text looked up after write_plan
FinalAflText(final_state) ==
  IF Get(final_state, "afl_text", << >>) # << >> THEN final_state["afl_text"]
  ELSE Get(Get(final_state, "outputs", << >>), "agentflowlanguage", << >>)

(* ------------------------------- inputs ------------------------------- *)
SeqsUpTo(S, n) == UNION {[1..k -> S] : k \in 0..n}

\* values of AGENTFLOW_ADAPTER
AdapterNames == {"codex", "copilot", "claude", "mock", "gemini"}

\* Settings.from_env(): the provider keys are set or not
SettingsSet ==
  {[openai_api_key |-> TRUE, anthropic_api_key |-> TRUE],
   [openai_api_key |-> FALSE, anthropic_api_key |-> FALSE]}

Prompts == {<<"Generate", " ", "summary">>, <<"Plan", " ", "a", " ", "Flow", "\n">>}
OutputModes == {"yaml", "afl"}

Stderrs == SeqsUpTo({" ", "boom"}, MaxStderrLen)
SampleUsage == [input_tokens |-> 10, output_tokens |-> 5]

\* flow specs: node entries with an id, only a name, or neither; edges
\* between the ids, one of them written with from/to and a dangling source
NodeIds == {<<"a">>, <<"b">>}
NodeEntries ==
  {JObj([id |-> JStr(i)]) : i \in NodeIds}
    \cup {JObj([name |-> JStr(<<"a">>)]), JObj([label |-> JStr(<<"unnamed">>)])}
EdgeEntries ==
  {JObj([source |-> JStr(s), target |-> JStr(t)]) : s \in NodeIds, t \in NodeIds}
    \cup {JObj([from |-> JStr(<<"c">>), to |-> JStr(<<"a", " ">>)])}
FlowSpec(nodes, edges) == JObj([nodes |-> JList(nodes), edges |-> JList(edges)])
FlowSpecs ==
  {FlowSpec(n, e) : n \in SeqsUpTo(NodeEntries, MaxNodes) \ {<< >>},
                    e \in SeqsUpTo(EdgeEntries, MaxEdges)}

\* a message that carries a fenced json block decoding to v
FencedMessage(v) ==
  Message(<<"Here is the ", "flow", ":", "\n", "<fence json>", "\n", "{json}", "\n", "<fence>">>,
          v, None)
Wrapped(flow_spec, afl) ==
  Decoded(JObj(IF afl = << >> THEN [flow_spec |-> flow_spec]
               ELSE [flow_spec |-> flow_spec, agentflowlanguage |-> JStr(afl)]))

PlainMessage == Message(<<"Hello tester!">>, None, None)
LinearFlowSpec ==
  FlowSpec(<<JObj([id |-> JStr(<<"a">>)]), JObj([id |-> JStr(<<"b">>)])>>,
           <<JObj([source |-> JStr(<<"a">>), target |-> JStr(<<"b">>)])>>)
RepeatedFlowSpec ==
  FlowSpec(<<JObj([id |-> JStr(<<"a">>)]), JObj([name |-> JStr(<<"a">>)])>>,
           <<JObj([source |-> JStr(<<"a">>), target |-> JStr(<<"a">>)])>>)
SampleAfl == <<"a();", "\n", "b();">>

PrimaryMessages ==
  {PlainMessage,
   FencedMessage(BadJson),
   FencedMessage(Decoded(FlowSpec(<< >>, << >>))),
   FencedMessage(Wrapped(LinearFlowSpec, << >>)),
   FencedMessage(Wrapped(LinearFlowSpec, SampleAfl)),
   FencedMessage(Decoded(RepeatedFlowSpec))}

CompilerMessages ==
  {PlainMessage,
   FencedMessage(Wrapped(LinearFlowSpec, << >>)),
   FencedMessage(Wrapped(RepeatedFlowSpec, SampleAfl))}

JsonMessage(v) == Message(<<"{json}">>, None, Decoded(v))
EvaluationMessages ==
  {JsonMessage(JObj([score |-> JNum(85),
                     justification |-> JStr(<<"Meets requirements.">>)])),
   JsonMessage(JObj([reasoning |-> JStr(<<"No score given.">>)])),
   JsonMessage(JNum(85)),
   Message(<<"Score", ":", " ", "0.85", "\n", "-", " ", "Reason", ":", " ",
             "Meets requirements.">>, None, None),
   Message(<<"Score", ":", " ", "85">>, None, None),
   Message(<<"I cannot evaluate this.">>, None, None)}

\* stdout that carries message m in the adapter's output shape
StdoutFor(name, m) ==
  IF name = "claude"
  THEN <<EventLine([content |-> <<[type |-> "text", text |-> m]>>,
                    usage |-> SampleUsage])>>
  ELSE <<EventLine([type |-> "item.completed",
                    item |-> [type |-> "agent_message", text |-> m]]),
         EventLine([type |-> "turn.completed", usage |-> SampleUsage])>>

SuccessProcs(name, messages) == {Completed(0, StdoutFor(name, m), << >>) : m \in messages}

PrimaryFailureProcs ==
  {Completed(1, << >>, e) : e \in Stderrs}
    \cup {TimedOut, Completed(0, << >>, << >>), Completed(0, <<BadLine(PlainMessage)>>, << >>)}
LaterFailureProcs == {Completed(1, << >>, <<"boom">>), TimedOut}

\* the Mock adapter starts no process
NoProc == Completed(0, << >>, << >>)
ProcsFor(name, procs) == IF name = "mock" THEN {NoProc} ELSE procs

PrimaryProcs(name) ==
  ProcsFor(name, PrimaryFailureProcs \cup SuccessProcs(name, PrimaryMessages))
CompilerProcs(name) ==
  ProcsFor(name, LaterFailureProcs \cup SuccessProcs(name, CompilerMessages))
EvaluationProcs(name) ==
  ProcsFor(name, LaterFailureProcs \cup SuccessProcs(name, EvaluationMessages))

(* ------------------------------- state -------------------------------- *)
VARIABLES
  adapter_name,   \* AGENTFLOW_ADAPTER
  settings,       \* Settings.from_env()
  prompt,         \* the prompt given to handle_prompt
  output_mode,    \* --output
  pc,             \* handle_prompt / pipeline / raised / returned / report / done
  current,        \* `current` of CompiledPipeline.invoke
  state,          \* `state` of CompiledPipeline.invoke (PromptRunState)
  exception,      \* the exception that left pipeline.invoke, or None
  timestamp,      \* `timestamp` of _execute_prompt_run
  clock,          \* datetime.now(timezone.utc)
  stage_log,      \* stage functions called, in order
  calls,          \* adapter.run calls made, in order
  spawned,        \* external processes started
  written,        \* documents passed to write_plan, in order
  result,         \* PromptExecutionResult, or None
  exit_code       \* return value of handle_prompt, -1 while running

vars == <<adapter_name, settings, prompt, output_mode, pc, current, state, exception,
          timestamp, clock, stage_log, calls, spawned, written, result, exit_code>>

inputs == <<adapter_name, settings, prompt, output_mode>>

InitWith(names, settingses, prompts, modes) ==
  /\ adapter_name \in names
  /\ settings \in settingses
  /\ prompt \in prompts
  /\ output_mode \in modes
  /\ pc = "handle_prompt"
  /\ current = EntryPoint
  /\ state = << >>
  /\ exception = None
  /\ timestamp = 0
  /\ clock = 0
  /\ stage_log = << >>
  /\ calls = << >>
  /\ spawned = 0
  /\ written = << >>
  /\ result = None
  /\ exit_code = -1

Init == InitWith(AdapterNames, SettingsSet, Prompts, OutputModes)

(* ------------------------------ actions ------------------------------- *)
\* handle_prompt up to pipeline.invoke(initial_state): _initialize_adapter
\* (KeyError for a name outside the registry), then the first lines of
\* _execute_prompt_run
HandlePrompt ==
  /\ pc = "handle_prompt"
  /\ IF adapter_name \notin DOMAIN AdapterRegistry
     THEN /\ exit_code' = 1
          /\ pc' = "done"
          /\ UNCHANGED <<state, timestamp, clock>>
     ELSE /\ timestamp' = clock
          /\ clock' = clock + 1
          /\ state' = [prompt |-> prompt,
                       summary |-> Summary(prompt),
                       plan_id |-> PlanId,
                       request_afl |-> (output_mode = "afl")]
          /\ pc' = "pipeline"
          /\ UNCHANGED exit_code
  /\ UNCHANGED <<inputs, current, exception, stage_log, calls, spawned, written, result>>

\* one iteration of the loop of CompiledPipeline.invoke for stage `node`
\* whose function did `res`; proc and run are the process outcome and the
\* outcome of adapter.run of the call the stage made, kept in the call log
RunStage(node, res, proc, run) ==
  /\ pc = "pipeline"
  /\ current = node
  /\ stage_log' = Append(stage_log, node)
  /\ calls' = calls \o [i \in 1..Len(res.calls) |->
                          [kind |-> res.calls[i],
                           started |-> clock,
                           returned |-> clock + 1,
                           proc |-> proc,
                           spawned |-> run.spawned,
                           raised |-> run.raised,
                           error |-> IF run.raised
                                     THEN [cls |-> run.cls, msg |-> run.msg] ELSE None]]
  /\ spawned' = spawned + res.spawned
  /\ clock' = clock + 2
  /\ IF res.raised
     THEN /\ exception' = [cls |-> res.cls, msg |-> res.msg]
          /\ pc' = "raised"
          /\ UNCHANGED <<state, current>>
     ELSE LET updated == Update(state, res.update)
              next_node == NextNode(node, updated)
          IN /\ state' = updated
             /\ IF next_node = END
                THEN pc' = "returned" /\ UNCHANGED current
                ELSE pc' = pc /\ current' = next_node
             /\ UNCHANGED exception
  /\ UNCHANGED <<inputs, timestamp, written, result, exit_code>>

NoRun == Return(None, 0)

Initialize == RunStage("initialize", initialize(state, clock + 1), NoProc, NoRun)

InvokeModelWith(procs) ==
  \E proc \in procs :
    RunStage("invoke_model", invoke_model(state, adapter_name, settings, proc, clock + 1),
             proc, AdapterRun(adapter_name, settings, state["prompt"], proc))

ParseFlowSpec == RunStage("parse_flow_spec", parse_flow_spec(state), NoProc, NoRun)

MaybeCompileWith(procs) ==
  \E proc \in procs :
    RunStage("maybe_compile", maybe_compile(state, adapter_name, settings, proc, clock + 1),
             proc, AdapterRun(adapter_name, settings,
                              FlowSpecCompilerPrompt(state["prompt"]), proc))

SelfEvaluateWith(procs) ==
  \E proc \in procs :
    RunStage("self_evaluate", self_evaluate(state, adapter_name, settings, proc, clock + 1),
             proc, AdapterRun(adapter_name, settings,
                              EvaluationPrompt(state["prompt"],
                                               Get(state, "codex_result",
                                                   Result(EmptyMessage, << >>, << >>)).message),
                              proc))

SynthesizeNodes == RunStage("synthesize_nodes", synthesize_nodes(state), NoProc, NoRun)

BuildPlan == RunStage("build_plan", build_plan(state, clock + 1), NoProc, NoRun)

InvokeModel == InvokeModelWith(PrimaryProcs(adapter_name))
MaybeCompile == MaybeCompileWith(CompilerProcs(adapter_name))
SelfEvaluate == SelfEvaluateWith(EvaluationProcs(adapter_name))

\* _execute_prompt_run after pipeline.invoke returned or raised: the two
\* except clauses, the fallback document, write_plan, write_afl, the result
FinishRun ==
  /\ pc \in {"raised", "returned"}
  /\ clock' = clock + 1
  /\ pc' = "report"
  /\ LET summary == Summary(prompt)
         request_afl == (output_mode = "afl")
     IN IF pc = "raised" /\ exception.cls # AdapterRegistry[adapter_name]
        THEN LET plan_document ==
                   UnexpectedErrorDocument(exception, prompt, summary, timestamp, clock)
             IN /\ written' = write_plan(written, plan_document)
                /\ result' = [plan_document |-> plan_document,
                              final_state |-> [plan_status |-> "failed",
                                               plan_document |-> plan_document,
                                               error_payload |-> UnexpectedErrorPayload(exception)],
                              afl_path |-> FALSE,
                              plan_status |-> "failed",
                              error_payload |-> UnexpectedErrorPayload(exception)]
        ELSE LET final_state0 == IF pc = "raised"
                                 THEN AdapterErrorState(exception, timestamp, clock)
                                 ELSE state
                 plan_document ==
                   IF Has(final_state0, "plan_document") THEN final_state0["plan_document"]
                   ELSE FallbackDocument(final_state0, prompt, summary, timestamp)
                 final_state == Update(final_state0, [plan_document |-> plan_document])
             IN /\ written' = write_plan(written, plan_document)
                /\ result' = [plan_document |-> plan_document,
                              final_state |-> final_state,
                              afl_path |-> (request_afl /\ FinalAflText(final_state) # << >>),
                              plan_status |-> plan_document["status"],
                              error_payload |-> Get(final_state, "error_payload", None)]
  /\ UNCHANGED <<inputs, current, state, exception, timestamp, stage_log, calls,
                 spawned, exit_code>>

\* handle_prompt after _execute_prompt_run returned
Report ==
  /\ pc = "report"
  /\ exit_code' = ExitCode(result)
  /\ pc' = "done"
  /\ UNCHANGED <<inputs, current, state, exception, timestamp, clock, stage_log,
                 calls, spawned, written, result>>

Next ==
  \/ HandlePrompt
  \/ Initialize
  \/ InvokeModel
  \/ ParseFlowSpec
  \/ MaybeCompile
  \/ SelfEvaluate
  \/ SynthesizeNodes
  \/ BuildPlan
  \/ FinishRun
  \/ Report

Spec == Init /\ [][Next]_vars

(* -------- the pipeline over every flow spec within the bounds --------- *)
FlowSettings == [openai_api_key |-> TRUE, anthropic_api_key |-> TRUE]
FlowPrimaryMessages ==
  {FencedMessage(Decoded(f)) : f \in FlowSpecs}
    \cup {FencedMessage(Wrapped(f, SampleAfl)) : f \in FlowSpecs}
FlowEvaluationMessage ==
  JsonMessage(JObj([score |-> JNum(85), justification |-> JStr(<<"Meets requirements.">>)]))

InitFlow == InitWith({"codex"}, {FlowSettings}, {<<"Generate", " ", "summary">>}, {"yaml"})

FlowInvokeModel == InvokeModelWith(SuccessProcs("codex", FlowPrimaryMessages))
FlowMaybeCompile == MaybeCompileWith(SuccessProcs("codex", CompilerMessages))
FlowSelfEvaluate == SelfEvaluateWith(SuccessProcs("codex", {FlowEvaluationMessage}))

NextFlow ==
  \/ HandlePrompt
  \/ Initialize
  \/ FlowInvokeModel
  \/ ParseFlowSpec
  \/ FlowMaybeCompile
  \/ FlowSelfEvaluate
  \/ SynthesizeNodes
  \/ BuildPlan
  \/ FinishRun
  \/ Report

SpecFlow == InitFlow /\ [][NextFlow]_vars

(* ------------- single calls of the functions of the program ---------- *)
\* One call of one function on arguments drawn from bounded sets: pc goes
\* from "unit" to "applied", current names the function, state holds the
\* arguments and result what the call returned or raised.
InitUnit ==
  /\ adapter_name = "mock"
  /\ settings = FlowSettings
  /\ prompt = <<"Generate", " ", "summary">>
  /\ output_mode = "yaml"
  /\ pc = "unit"
  /\ current = "none"
  /\ state = << >>
  /\ exception = None
  /\ timestamp = 0
  /\ clock = 0
  /\ stage_log = << >>
  /\ calls = << >>
  /\ spawned = 0
  /\ written = << >>
  /\ result = None
  /\ exit_code = -1

Apply(function, arguments, outcome) ==
  /\ pc = "unit"
  /\ pc' = "applied"
  /\ current' = function
  /\ state' = arguments
  /\ result' = outcome
  /\ UNCHANGED <<inputs, exception, timestamp, clock, stage_log, calls, spawned,
                 written, exit_code>>

\* edges for build_flow_nodes: into a (one of them a self edge), into b,
\* written with from/to, and one without a source
DepEdgeEntries ==
  {JObj([source |-> JStr(s), target |-> JStr(<<"a">>)]) : s \in NodeIds}
    \cup {JObj([source |-> JStr(<<"a">>), target |-> JStr(<<"b">>)]),
          JObj([from |-> JStr(<<"c">>), to |-> JStr(<<"a", " ">>)]),
          JObj([target |-> JStr(<<"a">>)])}

\* build_flow_nodes(flow_spec, run_started=0, run_finished=1)
BuildFlowNodesCall ==
  /\ pc = "unit"
  /\ \E n \in SeqsUpTo(NodeEntries, MaxNodes), e \in SeqsUpTo(DepEdgeEntries, MaxDepEdges) :
       Apply("build_flow_nodes", [flow_spec |-> FlowSpec(n, e)],
             [value |-> build_flow_nodes(FlowSpec(n, e), 0, 1)])

\* lines of standard output for the JSON-Lines adapters
PlainText(tok) == Message(<<tok>>, None, None)
ItemEvent(kind, text) ==
  [type |-> "item.completed", item |-> [type |-> kind, text |-> PlainText(text)]]
TurnCompleted(n) == [type |-> "turn.completed", usage |-> [input_tokens |-> n]]
UnitLines ==
  {BlankLine,
   BadLine(PlainText("plain")),
   EventLine(ItemEvent("agent_message", "A")),
   EventLine(ItemEvent("assistant_message", "B")),
   EventLine([type |-> "item.completed", item |-> [type |-> "agent_message"]]),
   EventLine(TurnCompleted(1)),
   EventLine(TurnCompleted(2)),
   EventLine([type |-> "thread.started"])}

UnitProcs ==
  {Completed(0, out, << >>) : out \in SeqsUpTo(UnitLines, MaxLines)}
    \cup {Completed(1, << >>, <<"boom">>), TimedOut}

\* adapter.run(prompt) of each adapter, constructed with both API keys set
AdapterRunCall ==
  /\ pc = "unit"
  /\ \E name \in AdapterNames, proc \in UnitProcs :
       Apply("adapter_run", [adapter |-> name, proc |-> proc],
             [outcome |-> AdapterRun(name, FlowSettings, prompt, proc)])

\* adapter.run(prompt) of each adapter, constructed with or without the API
\* keys, over an empty, a one-line, a failed and a timed-out process
SpawnProcs ==
  {Completed(0, out, << >>) : out \in SeqsUpTo(UnitLines, 1)}
    \cup {Completed(1, << >>, <<"boom">>), TimedOut}
AdapterRunWithSettingsCall ==
  /\ pc = "unit"
  /\ \E name \in AdapterNames, s \in SettingsSet, proc \in SpawnProcs :
       Apply("adapter_run_with_settings", [adapter |-> name, settings |-> s, proc |-> proc],
             [outcome |-> AdapterRun(name, s, prompt, proc)])

\* MockAdapter.run(prompt) called twice with the same prompt, on adapters
\* constructed with any settings; prompts without and with the word flow,
\* the empty prompt, and a prompt that quotes a fenced JSON block
QuotedFence == <<"<fence json>", "\n">> \o Dumps(CHOOSE v \in PromptJsonValues : TRUE) \o <<"\n", "<fence>">>
MockPrompts ==
  Prompts \cup {<< >>, <<"workflow">>, <<"Say", " ", "hello">>, QuotedFence,
                <<"Show", " ", "this", " ", "flow", ":", "\n">> \o QuotedFence}
MockRunCall ==
  /\ pc = "unit"
  /\ \E p \in MockPrompts, s1 \in SettingsSet, s2 \in SettingsSet, proc \in SpawnProcs :
       Apply("mock_adapter_run", [prompt |-> p, settings |-> <<s1, s2>>, proc |-> proc],
             [first |-> MockAdapterRun(s1, p, NoProc),
              second |-> MockAdapterRun(s2, p, proc)])

\* parse_evaluation_payload(message) on a response written as lines of text:
\* score lines, a purely numeric line, a reason line, other text, a blank line
TextLines ==
  {<<"Score", ":", " ", "0.85">>,
   <<"-", " ", "SCORE", ":", " ", "1">>,
   <<"0.5">>,
   <<"Reason", ":", " ", "Meets requirements.">>,
   <<"I cannot evaluate this.">>,
   <<" ">>}
RECURSIVE JoinText(_)
JoinText(lines) ==
  IF lines = << >> THEN << >>
  ELSE IF Len(lines) = 1 THEN lines[1]
  ELSE lines[1] \o <<"\n">> \o JoinText(Tail(lines))
\* json.loads of the text: a number when its only non-blank line is one
TextDocument(lines) ==
  LET nonblank == SelectSeq(lines, LAMBDA l : Strip(l) # << >>)
  IN IF Len(nonblank) = 1 /\ Len(Strip(nonblank[1])) = 1 /\ IsNumeric(Strip(nonblank[1])[1])
     THEN Decoded(JNum(NumVal[Strip(nonblank[1])[1]]))
     ELSE None
ParseTextCall ==
  /\ pc = "unit"
  /\ \E lines \in SeqsUpTo(TextLines, MaxTextLines) :
       LET apply(m) == Apply("parse_evaluation_text", [lines |-> lines, message |-> m],
                             [outcome |-> parse_evaluation_payload(m)])
       IN apply(Message(JoinText(lines), None, TextDocument(lines)))

\* documents on the standard output of the claude process
TextBlock(type, body) == [type |-> type, text |-> Message(body, None, None)]
ClaudeBlocks ==
  {TextBlock("text", <<" ", "a", " ">>),
   TextBlock("Text", <<"b">>),
   TextBlock("text", <<" ">>),
   [type |-> "tool_use"]}
ClaudeExtras ==
  {<< >>,
   [message |-> Message(<<" ", "m", " ">>, None, None)],
   [usage |-> [input_tokens |-> 1]],
   [usage |-> None],
   [message |-> Message(<<" ", "m", " ">>, None, None), usage |-> [input_tokens |-> 1]]}
ClaudeDocuments ==
  {Update([content |-> c], x) : c \in SeqsUpTo(ClaudeBlocks, MaxBlocks), x \in ClaudeExtras}

\* ClaudeCLIAdapter.run(prompt) on one JSON document
ClaudeRunCall ==
  /\ pc = "unit"
  /\ \E doc \in ClaudeDocuments :
       Apply("adapter_run",
             [adapter |-> "claude", proc |-> Completed(0, <<EventLine(doc)>>, << >>)],
             [outcome |-> AdapterRun("claude", FlowSettings, prompt,
                                     Completed(0, <<EventLine(doc)>>, << >>))])

\* json.loads(candidate) ends in an exception that is not a JSONDecodeError:
\* RecursionError on deeply nested brackets, ValueError on an integer
\* literal of more than 4300 digits
JsonLoadsRaises(cls) == [raises |-> cls]
LoadsRaised(fence) == "raises" \in DOMAIN fence

\* extract_flow_spec_from_message(message) as a call: only JSONDecodeError is
\* caught around json.loads
ExtractOutcome(message) ==
  IF MessageTruthy(message) /\ LoadsRaised(message.fence)
  THEN Raise(message.fence.raises, <<"json.loads">>, 0)
  ELSE Return(extract_flow_spec_from_message(message), 0)

UnitMessages ==
  {EmptyMessage,
   PlainMessage,
   FencedMessage(BadJson),
   FencedMessage(JsonLoadsRaises("RecursionError")),
   FencedMessage(JsonLoadsRaises("ValueError")),
   FencedMessage(Decoded(JList(<<JNum(1)>>))),
   FencedMessage(Decoded(JObj([flow_spec |-> JStr(<<"x">>)]))),
   FencedMessage(Decoded(JObj([flow_spec |-> None, nodes |-> JList(<<JNum(1)>>)]))),
   FencedMessage(Decoded(JObj([edges |-> JList(<< >>)]))),
   FencedMessage(Decoded(JObj([nodes |-> JStr(<<"a">>)]))),
   FencedMessage(Decoded(FlowSpec(<< >>, << >>))),
   FencedMessage(Wrapped(FlowSpec(<< >>, << >>), SampleAfl))}
    \cup {FencedMessage(Decoded(f)) : f \in FlowSpecs}
    \cup {FencedMessage(Wrapped(f, a)) : f \in FlowSpecs, a \in {<< >>, SampleAfl}}

\* extract_flow_spec_from_message(message)
ExtractCall ==
  /\ pc = "unit"
  /\ \E m \in UnitMessages :
       Apply("extract_flow_spec_from_message", [message |-> m],
             [outcome |-> ExtractOutcome(m)])

\* {"flow_spec": F, "agentflowlanguage": A} embedded in a fenced json block
RoundTripPayload(f, a) == JObj([flow_spec |-> f, agentflowlanguage |-> JStr(a)])
EmbedBody(v) ==
  <<"Here is the ", "flow", ":", "\n", "<fence json>", "\n">> \o Dumps(v) \o <<"\n", "<fence>">>
RoundTripFlowSpecs ==
  {FlowSpec(<<JObj([id |-> JStr(<<"a">>)])>>, << >>),
   LinearFlowSpec,
   FlowSpec(<<JObj([id |-> JStr(<<"a">>), label |-> JStr(<<"end", " ", "}", "<fence>">>)])>>,
            << >>)}
AflTokens == {"a();", "\n", "}", "<fence>"}
AflTexts == SeqsUpTo(AflTokens, MaxAflLen)
JsonValues == {RoundTripPayload(f, a) : f \in RoundTripFlowSpecs, a \in AflTexts}

\* extract_flow_spec_from_message(message) on the embedding of F and A
RoundTripCall ==
  /\ pc = "unit"
  /\ \E f \in RoundTripFlowSpecs, a \in AflTexts :
       LET apply(m) == Apply("round_trip",
                             [flow_spec |-> f, agentflowlanguage |-> a, message |-> m],
                             [outcome |-> ExtractOutcome(m)])
       IN apply(TextMessage(EmbedBody(RoundTripPayload(f, a)), JsonValues))

\* a score as the digits an evaluation response writes, and its value in
\* hundredths; a justification as text
ScoreTexts == {<<"0">>, <<"0.85">>, <<"1">>, <<"1.0">>, <<"7">>, <<"85">>, <<"-", "0.5">>}
ScoreValue(text) == IF Head(text) = "-" THEN 0 - NumVal[text[2]] ELSE NumVal[text[1]]
JustificationTokens == {"Meets requirements.", "\n", " ", ":"}
StrictForm(score, justification) ==
  JsonMessage(JObj([score |-> JNum(ScoreValue(score)), justification |-> JStr(justification)]))
HeuristicForm(score, justification) ==
  Message(<<"Score", ":", " ">> \o score \o <<"\n", "-", " ", "Reason", ":", " ">>
            \o justification, None, None)

\* parse_evaluation_payload(message) on the JSON form and on the text form
ParseEvaluationCall ==
  /\ pc = "unit"
  /\ \E score \in ScoreTexts, j \in SeqsUpTo(JustificationTokens, MaxJustificationLen) :
       Apply("parse_evaluation_payload",
             [score |-> score, justification |-> j],
             [strict |-> parse_evaluation_payload(StrictForm(score, j)),
              heuristic |-> parse_evaluation_payload(HeuristicForm(score, j))])

\* evaluation responses: those of the pipeline runs, both forms of every
\* score, and JSON objects whose score is not a number
UnitEvaluationMessages ==
  EvaluationMessages
    \cup {StrictForm(score, <<"Meets requirements.">>) : score \in ScoreTexts}
    \cup {HeuristicForm(score, <<"Meets requirements.">>) : score \in ScoreTexts}
    \cup {JsonMessage(JObj([score |-> JStr(<<"high">>)])),
          JsonMessage(JObj([score |-> JStr(<<"0.85">>), reasoning |-> JStr(<<"Fine.">>)])),
          JsonMessage(JObj([score |-> None, justification |-> JStr(<<"Unknown.">>)]))}
\* the process of the evaluation call and the message it carries, if any
UnitEvaluationRuns(name) ==
  IF name = "mock"
  THEN {[proc |-> NoProc,
         message |-> MockAdapterRun(FlowSettings, EvaluationPrompt(prompt, PlainMessage),
                                    NoProc).value.message]}
  ELSE {[proc |-> Completed(0, StdoutFor(name, m), << >>), message |-> m] :
          m \in UnitEvaluationMessages}
         \cup {[proc |-> p, message |-> None] : p \in LaterFailureProcs}

\* perform_self_evaluation(adapter, prompt, response)
PerformSelfEvaluationCall ==
  /\ pc = "unit"
  /\ \E name \in AdapterNames :
       \E run \in UnitEvaluationRuns(name) :
         Apply("perform_self_evaluation",
               [adapter |-> name, proc |-> run.proc, message |-> run.message],
               [outcome |-> perform_self_evaluation(name, FlowSettings, prompt,
                                                    PlainMessage, run.proc)])

NextUnit ==
  \/ ParseTextCall
  \/ MockRunCall
  \/ AdapterRunWithSettingsCall
  \/ ParseEvaluationCall
  \/ PerformSelfEvaluationCall
  \/ BuildFlowNodesCall
  \/ AdapterRunCall
  \/ ClaudeRunCall
  \/ ExtractCall
  \/ RoundTripCall

SpecUnit == InitUnit /\ [][NextUnit]_vars

(* ------------------------- shared predicates -------------------------- *)
\* pipeline.invoke has returned or raised
PipelineOver == pc \in {"raised", "returned", "report", "done"} /\ stage_log # << >>

StageCount(name) == Cardinality({i \in 1..Len(stage_log) : stage_log[i] = name})

\* the primary adapter call ended in the selected adapter's error kind
PrimaryFailedWithAdapterError ==
  /\ calls # << >>
  /\ calls[1].raised
  /\ calls[1].error.cls = AdapterRegistry[adapter_name]

PrimarySucceeded == calls # << >> /\ ~calls[1].raised

\* every adapter call so far returned or raised the adapter's error kind
OnlyAdapterErrors ==
  \A i \in 1..Len(calls) :
    calls[i].raised => calls[i].error.cls = AdapterRegistry[adapter_name]

CallKinds == [i \in 1..Len(calls) |-> calls[i].kind]

(* ------------------------------- claims ------------------------------- *)

\* C1: for every adapter variant, whether the primary adapter call succeeds
\* or fails with that variant's error kind, one execution of the pipeline
\* runs build_plan exactly once, as the last stage before termination.
C1_BuildPlanRunsOnce ==
  (PipelineOver /\ (PrimarySucceeded \/ PrimaryFailedWithAdapterError))
    => /\ StageCount("build_plan") = 1
       /\ stage_log[Len(stage_log)] = "build_plan"

\* C2: when the primary adapter call fails with the adapter's error kind,
\* the run state gets plan_status=failed, node_status=failed and
\* error_payload.message equal to the error text, and the pipeline goes
\* directly to build_plan: no other stage runs, no further adapter call.
C2_PrimaryFailureShortCircuits ==
  (PipelineOver /\ PrimaryFailedWithAdapterError)
    => /\ Get(state, "plan_status", "") = "failed"
       /\ Get(state, "node_status", "") = "failed"
       /\ Has(state, "error_payload")
       /\ state["error_payload"]["message"] = calls[1].error.msg
       /\ stage_log = <<"initialize", "invoke_model", "build_plan">>
       /\ Len(calls) = 1

\* C3: every call of _execute_prompt_run writes exactly one plan document,
\* on every path: pipeline success, adapter error raised out of the
\* pipeline, unexpected exception; never more than one, and none before
\* the run has produced its result.
C3_ExactlyOnePlanWritten ==
  /\ Len(written) <= 1
  /\ (result # None) <=> (Len(written) = 1)
  /\ (pc \in {"report", "done"} /\ stage_log # << >>) => Len(written) = 1

\* C3 witness: a finished run whose pipeline raised an exception that is
\* not the adapter's error kind, with its one document written.
C3_Witness ==
  /\ pc = "done"
  /\ ~IsNone(exception)
  /\ exception.cls # AdapterRegistry[adapter_name]
  /\ Len(written) = 1

\* C4: if the primary adapter call succeeds, then whatever happens in the
\* later stages (no flow spec, compiler call fails or returns no flow spec,
\* self-evaluation call fails or returns any text) the final document has
\* status completed and the primary node has status succeeded.
C4_LaterFailuresNeverAbort ==
  (pc = "done" /\ PrimarySucceeded /\ OnlyAdapterErrors)
    => /\ Len(written) = 1
       /\ written[1]["status"] = "completed"
       /\ written[1]["nodes"][1]["status"] = "succeeded"

\* the primary call started a process and that process exited non-zero
PrimaryExitedNonZero ==
  /\ calls # << >>
  /\ calls[1].spawned = 1
  /\ ~IsTimedOut(calls[1].proc)
  /\ calls[1].proc.returncode # 0

\* C5: when the external process of the primary adapter call exits
\* non-zero, the run yields a failed plan document (status failed, primary
\* node failed) whose primary node error.message contains the stripped
\* standard-error text of the process, and the exit code is 1.
C5_NonZeroExitYieldsFailedDocument ==
  (pc = "done" /\ PrimaryExitedNonZero)
    => /\ Len(written) = 1
       /\ written[1]["status"] = "failed"
       /\ written[1]["nodes"][1]["status"] = "failed"
       /\ Has(written[1]["nodes"][1], "error")
       /\ Contains(written[1]["nodes"][1]["error"]["message"],
                   Strip(calls[1].proc.stderr))
       /\ exit_code = 1

\* C5 witness: a finished run whose primary process exited non-zero with
\* standard-error text that has surrounding whitespace to strip.
C5_Witness ==
  /\ pc = "done"
  /\ PrimaryExitedNonZero
  /\ Strip(calls[1].proc.stderr) # << >>
  /\ Strip(calls[1].proc.stderr) # calls[1].proc.stderr

\* C6: for every run that reaches the pipeline, handle_prompt returns 1
\* exactly when the written document's top-level status is failed and 0
\* otherwise, whatever the evaluation or compiler diagnostics are.
C6_ExitCodeMirrorsStatus ==
  (pc = "done" /\ written # << >>)
    => exit_code = (IF written[1]["status"] = "failed" THEN 1 ELSE 0)

\* C6 witness: a run that ended with exit code 0 although both the compiler
\* call and the self-evaluation call failed and are recorded as errors.
C6_Witness ==
  /\ pc = "done"
  /\ exit_code = 0
  /\ Len(written) = 1
  /\ Has(written[1], "eval_metrics")
  /\ Has(written[1]["eval_metrics"], "self_evaluation_error")
  /\ Has(written[1]["nodes"][1]["outputs"], "flow_spec_compiler_error")

\* C7: in a single run the adapter is called at most three times, in the
\* order primary, compiler (at most once), self-evaluation (at most once);
\* a later call starts only after the earlier one has returned; a run whose
\* primary call fails makes exactly one adapter call.
C7_AdapterCallsOrdered ==
  /\ CallKinds \in {<< >>, <<"primary">>, <<"primary", "compiler">>,
                    <<"primary", "evaluation">>,
                    <<"primary", "compiler", "evaluation">>}
  /\ \A i, j \in 1..Len(calls) : i < j => calls[i].returned <= calls[j].started
  /\ (calls # << >> /\ calls[1].raised) => Len(calls) = 1
  /\ (PipelineOver /\ Len(stage_log) > 1) => Len(calls) >= 1

\* C7 witness: a finished run that made all three adapter calls.
C7_Witness == pc = "done" /\ Len(calls) = 3

\* C8: when the external process does not finish within the timeout,
\* adapter.run fails with the adapter's own error kind, so invoke_model
\* records plan_status=failed and routes to build_plan.
C8_TimeoutIsAdapterError ==
  (PipelineOver /\ calls # << >> /\ calls[1].spawned = 1 /\ IsTimedOut(calls[1].proc))
    => /\ calls[1].raised
       /\ calls[1].error.cls = AdapterRegistry[adapter_name]
       /\ Get(state, "plan_status", "") = "failed"
       /\ stage_log[Len(stage_log)] = "build_plan"

\* C9: in every plan document produced, for any flow spec (also one with
\* repeated node ids or nodes identified only by name), the node ids of
\* the nodes list are pairwise distinct.
C9_NodeIdsUnique ==
  \A d \in 1..Len(written) :
    \A i, j \in 1..Len(written[d]["nodes"]) :
      i # j => written[d]["nodes"][i]["id"] # written[d]["nodes"][j]["id"]

\* C10: for any flow spec (also one with an edge whose source equals its
\* target), no node's depends_on list in the produced document contains
\* that node's own id.
C10_NoSelfDependency ==
  \A d \in 1..Len(written) :
    \A i \in 1..Len(written[d]["nodes"]) :
      \A k \in 1..Len(written[d]["nodes"][i]["depends_on"]) :
        written[d]["nodes"][i]["depends_on"][k] # written[d]["nodes"][i]["id"]

\* C11: every plan document produced, on every path (also when the primary
\* call fails or an unexpected exception leaves the pipeline), has the
\* primary node, id codex_execution, as the first entry of nodes, with an
\* empty depends_on.
C11_PrimaryNodeFirst ==
  \A d \in 1..Len(written) :
    /\ Len(written[d]["nodes"]) >= 1
    /\ written[d]["nodes"][1]["id"] = <<"codex_execution">>
    /\ written[d]["nodes"][1]["depends_on"] = << >>

\* C11 witness: the primary process timed out, an exception that is not the
\* adapter's error kind left the pipeline, and the document written by the
\* entry point holds the primary node with its error.
C11_Witness ==
  /\ pc = "done"
  /\ calls # << >>
  /\ IsTimedOut(calls[1].proc)
  /\ Len(written) = 1
  /\ Has(written[1]["nodes"][1], "error")

\* C13: in every written plan document the top-level status is completed
\* exactly when the primary node's status is succeeded and failed exactly
\* when the primary node's status is failed; it is never pending.
C13_StatusMirrorsPrimaryNode ==
  \A d \in 1..Len(written) :
    /\ written[d]["status"] \in {"completed", "failed"}
    /\ written[d]["nodes"][1]["status"] \in {"succeeded", "failed"}
    /\ written[d]["status"] = "completed" <=> written[d]["nodes"][1]["status"] = "succeeded"
    /\ written[d]["status"] = "failed" <=> written[d]["nodes"][1]["status"] = "failed"

\* C13 witness: a failed document written by the entry point after the
\* adapter's error left the pipeline, its primary node failed.
C13_Witness ==
  /\ pc = "done"
  /\ ~IsNone(exception)
  /\ Len(written) = 1
  /\ written[1]["status"] = "failed"
  /\ written[1]["nodes"][1]["status"] = "failed"

\* C14: in every plan document rollup.counts.succeeded is the number of
\* nodes with status succeeded, rollup.counts.failed the number with
\* status failed, and the two counts sum to the number of nodes.
C14_RollupCountsTally ==
  \A d \in 1..Len(written) :
    LET nodes == written[d]["nodes"]
        counts == written[d]["rollup"]["counts"]
    IN /\ counts["succeeded"] = Len(SelectSeq(nodes, LAMBDA n : n["status"] = "succeeded"))
       /\ counts["failed"] = Len(SelectSeq(nodes, LAMBDA n : n["status"] = "failed"))
       /\ counts["succeeded"] + counts["failed"] = Len(nodes)

\* C14 witness: a document with a succeeded primary node and at least one
\* synthetic node, so that the tally is over more than one node.
C14_Witness ==
  /\ pc = "done"
  /\ Len(written) = 1
  /\ written[1]["rollup"]["counts"]["succeeded"] >= 2

\* C12: for every synthetic node built from flow-spec node n, depends_on is
\* codex_execution followed by flow::<source> for each edge whose target is
\* n's id, in edge order, duplicates removed keeping the first occurrence:
\* the first element is codex_execution, no element occurs twice, the rest
\* are exactly the prefixed sources of the incoming edges, ordered by their
\* first incoming edge, and a node without incoming edges depends on
\* codex_execution alone.  (An edge end is read from source/target or
\* from/to, trimmed; an edge without a source names no dependency.)
C12_DependsOnFromIncomingEdges ==
  (pc = "applied" /\ current = "build_flow_nodes") =>
    LET edges == state.flow_spec.obj["edges"].list
        nodes == result.value
        Src(k) == <<"flow::">> \o EitherKey(edges[k].obj, "source", "from")
    IN \A i \in 1..Len(nodes) :
         LET id == EitherKey(nodes[i]["inputs"]["flow_spec_node"].obj, "id", "name")
             deps == nodes[i]["depends_on"]
             Incoming == {k \in 1..Len(edges) :
                            /\ EitherKey(edges[k].obj, "target", "to") = id
                            /\ EitherKey(edges[k].obj, "source", "from") # << >>}
             First(x) == CHOOSE k \in Incoming :
                           Src(k) = x /\ \A j \in Incoming : Src(j) = x => k <= j
         IN /\ Len(deps) >= 1
            /\ deps[1] = <<"codex_execution">>
            /\ \A a, b \in 1..Len(deps) : a # b => deps[a] # deps[b]
            /\ {deps[a] : a \in 2..Len(deps)} = {Src(k) : k \in Incoming}
            /\ \A a, b \in 2..Len(deps) : a < b => First(deps[a]) < First(deps[b])
            /\ Incoming = {} => deps = <<(<<"codex_execution">>)>>

\* C12 witness: a node with three incoming edges of which two name the same
\* source, so that its depends_on has three entries.
C12_Witness ==
  /\ pc = "applied"
  /\ current = "build_flow_nodes"
  /\ \E i \in 1..Len(result.value) :
       /\ Len(result.value[i]["depends_on"]) = 3
       /\ Cardinality({k \in 1..Len(state.flow_spec.obj["edges"].list) :
              EitherKey(state.flow_spec.obj["edges"].list[k].obj, "target", "to")
                = result.value[i]["outputs"]["node_id"]}) = 3

(* ------------------- single calls of adapter.run ---------------------- *)
\* an adapter.run call has been applied
AdapterRunApplied == pc = "applied" /\ current = "adapter_run"
ProviderErrors ==
  [codex |-> "CodexCLIError", copilot |-> "CopilotCLIError",
   claude |-> "ClaudeCLIError", gemini |-> "GeminiCLIError"]

\* C15: every Result returned by adapter.run has a non-empty message, and a
\* process that exits 0 with empty standard output makes run fail with the
\* provider's error kind instead of returning a Result.
C15_ResultMessageNonEmpty ==
  AdapterRunApplied =>
    /\ ~result.outcome.raised => MessageTruthy(result.outcome.value.message)
    /\ (/\ state.adapter \in DOMAIN ProviderErrors
        /\ ~IsTimedOut(state.proc)
        /\ state.proc.returncode = 0
        /\ state.proc.stdout = << >>)
         => /\ result.outcome.raised
            /\ result.outcome.cls = ProviderErrors[state.adapter]

\* the adapters that read standard output as JSON Lines
JsonLinesAdapters == {"codex", "copilot", "gemini"}
\* the lines of out that are message events, and those that are turn.completed
MessageLines(out) ==
  {i \in 1..Len(out) :
     /\ IsEvent(out[i])
     /\ Has(out[i].event, "item")
     /\ Has(out[i].event["item"], "type")
     /\ out[i].event["item"]["type"] \in {"agent_message", "assistant_message"}}
TurnLines(out) ==
  {i \in 1..Len(out) :
     IsEvent(out[i]) /\ Has(out[i].event, "type") /\ out[i].event["type"] = "turn.completed"}
Last(S) == CHOOSE i \in S : \A j \in S : j <= i
\* a JSON-Lines adapter was run on a process that exited 0 with only blank
\* lines and events on standard output, a message event among them
AllEventsRun ==
  /\ AdapterRunApplied
  /\ state.adapter \in JsonLinesAdapters
  /\ ~IsTimedOut(state.proc)
  /\ state.proc.returncode = 0
  /\ \A i \in 1..Len(state.proc.stdout) : ~IsBad(state.proc.stdout[i])
  /\ MessageLines(state.proc.stdout) # {}

\* C16: for every JSON-Lines adapter and standard output of valid events,
\* the Result message is the text of the last agent_message or
\* assistant_message event and usage is that of the last turn.completed
\* event, or empty if there is none.
C16_LastMessageEventWins ==
  AllEventsRun =>
    LET out == state.proc.stdout
        item == out[Last(MessageLines(out))].event["item"]
    IN /\ ~result.outcome.raised
       /\ result.outcome.value.message
            = (IF Has(item, "text") THEN item["text"] ELSE EmptyMessage)
       /\ result.outcome.value.usage
            = (IF TurnLines(out) = {} THEN << >>
               ELSE out[Last(TurnLines(out))].event["usage"])

\* ClaudeCLIAdapter.run was applied to a process that exited 0 with one
\* JSON document on standard output
ClaudeDocumentRun ==
  /\ AdapterRunApplied
  /\ state.adapter = "claude"
  /\ ~IsTimedOut(state.proc)
  /\ state.proc.returncode = 0
  /\ Len(state.proc.stdout) = 1
  /\ IsEvent(state.proc.stdout[1])
  /\ Has(state.proc.stdout[1].event, "content")
ClaudeDocument == state.proc.stdout[1].event
IsTextBlock(block) == Has(block, "type") /\ Lower(block["type"]) = "text" /\ Has(block, "text")
RECURSIVE JoinDouble(_)
JoinDouble(texts) ==
  IF texts = << >> THEN << >>
  ELSE IF Len(texts) = 1 THEN texts[1]
  ELSE texts[1] \o <<"\n", "\n">> \o JoinDouble(Tail(texts))
TrimmedTexts(blocks) == [i \in 1..Len(blocks) |-> Strip(blocks[i]["text"].body)]
TopLevelUsage(doc) ==
  IF Has(doc, "usage") /\ ~IsNone(doc["usage"]) THEN doc["usage"] ELSE << >>

BadLineRun ==
  /\ AdapterRunApplied
  /\ state.adapter \in JsonLinesAdapters
  /\ ~IsTimedOut(state.proc)
  /\ state.proc.returncode = 0
  /\ \E i \in 1..Len(state.proc.stdout) : IsBad(state.proc.stdout[i])

ExtractApplied == pc = "applied" /\ current = "extract_flow_spec_from_message"

\* the fenced block of the message decodes to a flow spec with a non-empty
\* nodes list, directly or under the key flow_spec
CarriesFlowSpec(message) ==
  /\ MessageTruthy(message)
  /\ "val" \in DOMAIN message.fence
  /\ LET loaded == message.fence.val
         inner == IF IsDict(loaded) /\ Has(loaded.obj, "flow_spec")
                     /\ ~IsNone(loaded.obj["flow_spec"])
                  THEN loaded.obj["flow_spec"] ELSE loaded
     IN /\ IsDict(inner)
        /\ Has(inner.obj, "nodes")
        /\ IsList(inner.obj["nodes"])
        /\ inner.obj["nodes"].list # << >>

\* C19: extract_flow_spec_from_message never raises; it returns none when
\* there is no fenced json block, the block does not parse, the flow-spec
\* value is not an object, or nodes is missing, not a list or empty; a
\* returned payload has a non-empty list flow_spec.nodes.
C19_ExtractNeverRaises ==
  ExtractApplied =>
    /\ ~result.outcome.raised
    /\ ~CarriesFlowSpec(state.message) => IsNone(result.outcome.value)
    /\ ~IsNone(result.outcome.value) =>
         /\ IsList(result.outcome.value.flow_spec.obj["nodes"])
         /\ result.outcome.value.flow_spec.obj["nodes"].list # << >>

\* C20: for every valid flow spec F and AgentFlowLanguage string A,
\* extracting from a message that embeds the JSON serialization of
\* {"flow_spec": F, "agentflowlanguage": A} in a fenced json block returns a
\* payload whose flow_spec equals F and whose agentflowlanguage equals A.
C20_ExtractRoundTrip ==
  (pc = "applied" /\ current = "round_trip") =>
    /\ ~result.outcome.raised
    /\ ~IsNone(result.outcome.value)
    /\ result.outcome.value.flow_spec = state.flow_spec
    /\ Has(result.outcome.value, "agentflowlanguage")
    /\ result.outcome.value.agentflowlanguage = state.agentflowlanguage

(* -------------- single calls of parse_evaluation_payload -------------- *)
ParseEvaluationApplied == pc = "applied" /\ current = "parse_evaluation_payload"

EvaluationCallFailed ==
  \E i \in 1..Len(calls) :
    /\ calls[i].kind = "evaluation"
    /\ calls[i].raised
    /\ calls[i].error.cls = AdapterRegistry[adapter_name]

\* C22: for every adapter variant, when the self-evaluation call fails with
\* that variant's error kind, nothing is raised, the evaluation payload holds
\* only an error string, the pipeline goes on to synthesize_nodes and
\* build_plan, and the document stays completed.
C22_EvaluationFailureIsSoft ==
  (pc = "done" /\ EvaluationCallFailed)
    => /\ IsNone(exception)
       /\ DOMAIN state["evaluation_payload"] = {"error"}
       /\ StageCount("synthesize_nodes") = 1
       /\ StageCount("build_plan") = 1
       /\ Len(written) = 1
       /\ written[1]["status"] = "completed"

(* --------------- single calls of perform_self_evaluation -------------- *)
\* perform_self_evaluation was applied and its adapter call returned the
\* evaluation response state.message
EvaluationResponseRead ==
  /\ pc = "applied"
  /\ current = "perform_self_evaluation"
  /\ ~IsNone(state.message)
\* neither the JSON parse nor the line scan finds a numeric score in message
NoScoreFound(message) ==
  LET found(parsed) == /\ ~parsed.raised
                       /\ IsNone(parsed.value) \/ IsNone(parsed.value.score)
  IN found(parse_evaluation_payload(message))

\* C23: perform_self_evaluation returns none, with no payload and no error,
\* whenever neither the JSON parse nor the heuristic line scan finds a
\* numeric score in the evaluation response.
C23_NoScoreMeansNoEvaluation ==
  (EvaluationResponseRead /\ NoScoreFound(state.message))
    => /\ ~result.outcome.raised
       /\ IsNone(result.outcome.value)

\* a stored score lies in the closed interval [0.0, 1.0] (hundredths)
InUnitInterval(score) == score.num >= 0 /\ score.num <= 100

\* the places of a written document and its final state that carry a score
StoredScores ==
  LET node == written[1]["nodes"][1]
      payload == Get(state, "evaluation_payload", None)
  IN (IF IsNone(payload) \/ ~Has(payload, "score") \/ IsNone(payload["score"])
      THEN {} ELSE {payload["score"]})
     \cup (IF Has(node["outputs"], "evaluation") /\ Has(node["outputs"]["evaluation"], "score")
           THEN {node["outputs"]["evaluation"]["score"]} ELSE {})
     \cup (IF Has(node["metrics"], "evaluation_score")
           THEN {node["metrics"]["evaluation_score"]} ELSE {})
     \cup (IF Has(written[1], "eval_metrics")
              /\ Has(written[1]["eval_metrics"], "self_evaluation_score")
           THEN {written[1]["eval_metrics"]["self_evaluation_score"]} ELSE {})

\* C24: every score stored in the evaluation payload and copied to
\* outputs.evaluation.score, metrics.evaluation_score and
\* eval_metrics.self_evaluation_score is a number within [0.0, 1.0] or is
\* absent, whatever number the evaluation response contains.
C24_ScoreWithinUnitInterval ==
  (pc = "done" /\ Len(written) = 1 /\ IsNone(exception))
    => \A score \in StoredScores : InUnitInterval(score)

\* perform_self_evaluation was applied and returned a payload
EvaluationPayloadReturned ==
  /\ pc = "applied"
  /\ current = "perform_self_evaluation"
  /\ ~result.outcome.raised
  /\ ~IsNone(result.outcome.value)

\* payload["score"] is a number
HasNumericScore(payload) ==
  Has(payload, "score") /\ ~IsNone(payload["score"]) /\ Has(payload["score"], "num")

\* C25: every payload produced by perform_self_evaluation either has a
\* numeric score, or has error set to a non-empty string and carries
\* nothing but error.
C25_NoScoreOnlyError ==
  EvaluationPayloadReturned
    => \/ HasNumericScore(result.outcome.value)
       \/ /\ DOMAIN result.outcome.value = {"error"}
          /\ result.outcome.value["error"] # << >>

\* the credential that the selected adapter requires is not set
CredentialMissing ==
  \/ adapter_name = "codex" /\ ~settings.openai_api_key
  \/ adapter_name = "claude" /\ ~settings.anthropic_api_key

\* C26: when the credential that the selected adapter requires is missing,
\* handle_prompt returns before any pipeline run: no pipeline stage executes,
\* no adapter.run call is made and no plan document is written.
C26_MissingCredentialAbortsBeforeRun ==
  CredentialMissing
    => /\ stage_log = << >>
       /\ calls = << >>
       /\ written = << >>

\* pipeline.invoke raised an exception that is not the adapter's error kind
\* and _execute_prompt_run has returned
UnexpectedPipelineError ==
  /\ pc \in {"report", "done"}
  /\ ~IsNone(exception)
  /\ exception.cls # AdapterRegistry[adapter_name]

\* C27: an exception other than the adapter's error kind raised during
\* pipeline.invoke is caught by _execute_prompt_run: one failed document is
\* written (status failed, primary node failed, error.message the generic
\* 'Unexpected pipeline error' diagnostic), the call returns plan_status
\* failed with that document, and handle_prompt ends with exit code 1.
C27_UnexpectedErrorWritesFailedDocument ==
  UnexpectedPipelineError
    => /\ Len(written) = 1
       /\ written[1]["status"] = "failed"
       /\ written[1]["nodes"][1]["status"] = "failed"
       /\ Has(written[1]["nodes"][1], "error")
       /\ SubSeq(written[1]["nodes"][1]["error"]["message"], 1, 1) = <<"Unexpected pipeline error: ">>
       /\ result # None
       /\ result.plan_status = "failed"
       /\ result.plan_document = written[1]
       /\ result.error_payload = written[1]["nodes"][1]["error"]
       /\ pc = "done" => exit_code = 1

\* C27 witness: a subprocess timeout went through the pipeline and the run
\* has ended
C27_Witness ==
  /\ pc = "done"
  /\ ~IsNone(exception)
  /\ exception.cls = "TimeoutExpired"
  /\ Len(written) = 1
  /\ written[1]["status"] = "failed"

\* the keys each stage function of build_prompt_pipeline puts in its update
StageKeys ==
  [initialize |-> {"run_started", "run_finished", "duration_seconds", "plan_status",
                   "node_status", "outputs", "usage", "events", "notes"},
   invoke_model |-> {"plan_status", "node_status", "error_payload", "notes", "outputs",
                     "events", "usage", "codex_result", "run_finished", "duration_seconds"},
   parse_flow_spec |-> {"outputs", "afl_text", "flow_spec_payload", "flow_spec_source"},
   maybe_compile |-> {"outputs", "flow_spec_payload", "flow_spec_source", "afl_text",
                      "run_finished", "duration_seconds"},
   self_evaluate |-> {"evaluation_payload", "outputs", "run_finished", "duration_seconds"},
   synthesize_nodes |-> {"synthetic_nodes", "outputs"},
   build_plan |-> {"plan_document", "outputs", "run_finished", "duration_seconds"}]

\* the keys of state["outputs"], none before initialize
OutputKeys(run_state) == IF Has(run_state, "outputs") THEN DOMAIN run_state["outputs"] ELSE {}

InputKeys == {"prompt", "summary", "plan_id", "request_afl"}

\* C28: across every stage of a pipeline run the set of keys of the run
\* state never shrinks, no key of outputs is removed, the stage changes only
\* keys named in its own update, and prompt, summary, plan_id and
\* request_afl keep their initial values.
C28_StagesAreMonotonic ==
  [][pc = "pipeline"
       => /\ DOMAIN state \subseteq DOMAIN state'
          /\ OutputKeys(state) \subseteq OutputKeys(state')
          /\ {k \in DOMAIN state' : k \notin DOMAIN state \/ state'[k] # state[k]}
               \subseteq StageKeys[current]
          /\ \A k \in InputKeys : state'[k] = state[k]
          /\ state'["prompt"] = prompt
          /\ state'["summary"] = Summary(prompt)
          /\ state'["plan_id"] = PlanId
          /\ state'["request_afl"] = (output_mode = "afl")]_vars

\* C28 witness: all seven stages ran, the compiler and the evaluation added
\* their outputs next to the primary message, and the inputs are in place
C28_Witness ==
  /\ pc = "returned"
  /\ Len(stage_log) = 7
  /\ {"message", "events", "flow_spec_compiler", "evaluation", "flow_spec"}
       \subseteq OutputKeys(state)
  /\ InputKeys \subseteq DOMAIN state
  /\ state["prompt"] = prompt

\* adapter.run was applied with the settings of the call among its arguments
RunWithSettingsApplied == pc = "applied" /\ current = "adapter_run_with_settings"

\* the adapter of the call requires a credential that its settings lack
CallCredentialMissing ==
  \/ state.adapter = "codex" /\ ~state.settings.openai_api_key
  \/ state.adapter = "claude" /\ ~state.settings.anthropic_api_key

\* the error kind of each process-backed adapter
ProviderErrorOf ==
  [codex |-> "CodexCLIError", copilot |-> "CopilotCLIError",
   claude |-> "ClaudeCLIError", gemini |-> "GeminiCLIError"]

\* C29: a call of run on a process-backed adapter spawns at most one
\* process, and exactly one once past the credential check; with the
\* required credential absent (Codex, Claude) the provider error is raised
\* and no process is spawned; the Mock adapter never spawns a process.
C29_AtMostOneProcessPerRun ==
  RunWithSettingsApplied
    => /\ result.outcome.spawned \in {0, 1}
       /\ state.adapter = "mock" => result.outcome.spawned = 0
       /\ (state.adapter # "mock" /\ ~CallCredentialMissing) => result.outcome.spawned = 1
       /\ CallCredentialMissing
            => /\ result.outcome.raised
               /\ result.outcome.cls = ProviderErrorOf[state.adapter]
               /\ result.outcome.spawned = 0

\* C29 witness: run of the Claude adapter without its key raised the
\* provider error and started no process
C29_Witness ==
  /\ RunWithSettingsApplied
  /\ state.adapter = "claude"
  /\ CallCredentialMissing
  /\ result.outcome.raised
  /\ result.outcome.spawned = 0

\* MockAdapter.run was applied twice to the prompt state.prompt
MockRunApplied == pc = "applied" /\ current = "mock_adapter_run"

\* the templated acknowledgement of a prompt: its first 50 characters quoted
Acknowledgement(p) ==
  <<"Mock response: I received your prompt '">>
    \o SubSeq(p, 1, IF Len(p) < 50 THEN Len(p) ELSE 50)
    \o <<"...' and here is a canned reply. This is a test response from the mock adapter.">>

\* both calls returned, with equal Results, three events (thread.started,
\* item.completed carrying the message, turn.completed) and the fixed usage
MockRunIsFixed ==
  /\ ~result.first.raised
  /\ ~result.second.raised
  /\ result.first = result.second
  /\ LET r == result.first.value
     IN /\ Len(r.events) = 3
        /\ r.events[1]["type"] = "thread.started"
        /\ r.events[2]["item"]["text"] = r.message
        /\ r.events[3]["type"] = "turn.completed"
        /\ r.usage = [input_tokens |-> 10, output_tokens |-> 25, total_tokens |-> 35]

\* the message embeds the canned three-step flow spec in a fenced json block
EmbedsCannedFlowSpec(message) ==
  LET payload == extract_flow_spec_from_message(message)
      ids(nodes) == [i \in 1..Len(nodes) |-> nodes[i].obj["id"].str]
  IN /\ ~IsNone(payload)
     /\ ids(payload["flow_spec"].obj["nodes"].list) = <<<<"start">>, <<"greet">>, <<"end">>>>
     /\ Len(payload["flow_spec"].obj["edges"].list) = 2

\* C30 as stated: MockAdapter.run never fails and is deterministic; the
\* message embeds a fenced json flow spec exactly when the lower-cased prompt
\* contains 'flow' and is the templated acknowledgement otherwise; three
\* events and the same usage for every prompt.
C30_FlowSpecExactlyWhenFlowPrompt ==
  MockRunApplied
    => /\ MockRunIsFixed
       /\ CarriesFlowSpec(result.first.value.message) <=> MentionsFlow(state.prompt)
       /\ ~MentionsFlow(state.prompt)
            => result.first.value.message.body = Acknowledgement(state.prompt)

\* C30 amended: MockAdapter.run never fails and is deterministic; the
\* message embeds the canned three-step flow spec exactly when the
\* lower-cased prompt contains 'flow', and is otherwise the templated
\* acknowledgement, which carries a fenced json flow spec only if the quoted
\* prompt does; three events and the same usage for every prompt.
C30_CannedFlowSpecExactlyWhenFlowPrompt ==
  MockRunApplied
    => /\ MockRunIsFixed
       /\ EmbedsCannedFlowSpec(result.first.value.message) <=> MentionsFlow(state.prompt)
       /\ ~MentionsFlow(state.prompt)
            => /\ result.first.value.message.body = Acknowledgement(state.prompt)
               /\ CarriesFlowSpec(result.first.value.message)
                    => CarriesFlowSpec(TextMessage(state.prompt, PromptJsonValues))

\* C30 witness: a prompt that mentions a flow only in mixed case got the
\* canned flow spec from both calls, made with different settings
C30_Witness ==
  /\ MockRunApplied
  /\ state.prompt = <<"Plan", " ", "a", " ", "Flow", "\n">>
  /\ state.settings[1] # state.settings[2]
  /\ EmbedsCannedFlowSpec(result.first.value.message)
  /\ result.first = result.second

\* a finished run wrote a completed document and its self-evaluation
\* yielded a numeric score
EvaluatedWithScore ==
  /\ pc = "done"
  /\ Len(written) = 1
  /\ written[1]["status"] = "completed"
  /\ Has(state, "evaluation_payload")
  /\ HasNumericScore(state["evaluation_payload"])

\* C31: in a successful run whose self-evaluation yields score s the
\* document carries s in the primary node's outputs.evaluation.score, in its
\* metrics.evaluation_score and in the top-level
\* eval_metrics.self_evaluation_score.
C31_ScoreInAllThreePlaces ==
  EvaluatedWithScore
    => LET s == state["evaluation_payload"]["score"]
           node == written[1]["nodes"][1]
       IN /\ Has(node["outputs"], "evaluation")
          /\ Has(node["outputs"]["evaluation"], "score")
          /\ node["outputs"]["evaluation"]["score"] = s
          /\ Has(node["metrics"], "evaluation_score")
          /\ node["metrics"]["evaluation_score"] = s
          /\ Has(written[1], "eval_metrics")
          /\ Has(written[1]["eval_metrics"], "self_evaluation_score")
          /\ written[1]["eval_metrics"]["self_evaluation_score"] = s

\* C31 witness: the evaluation answered with the score 0.85 and the run
\* ended with a completed document
C31_Witness ==
  /\ EvaluatedWithScore
  /\ state["evaluation_payload"]["score"] = JNum(85)
  /\ written[1]["nodes"][1]["id"] = PrimaryNodeId

\* the order of the stages on the success route and on the failure route
SuccessOrder ==
  <<"initialize", "invoke_model", "parse_flow_spec", "maybe_compile", "self_evaluate",
    "synthesize_nodes", "build_plan">>
FailureOrder == <<"initialize", "invoke_model", "build_plan">>
IsPrefix(s, t) == Len(s) <= Len(t) /\ s = SubSeq(t, 1, Len(s))

\* pipeline.invoke returned after invoke_model took the success route
ReturnedOnSuccessRoute ==
  /\ pc \in {"returned", "report", "done"}
  /\ IsNone(exception)
  /\ stage_log # << >>
  /\ Get(state, "plan_status", "") # "failed"

\* C32: the stages run in the fixed order initialize, invoke_model,
\* parse_flow_spec, maybe_compile, self_evaluate, synthesize_nodes,
\* build_plan, each exactly once on the success path; the only branch is
\* after invoke_model; no run executes more than seven stages and no stage
\* is entered twice.
C32_StagesInFixedOrder ==
  /\ IsPrefix(stage_log, SuccessOrder) \/ IsPrefix(stage_log, FailureOrder)
  /\ Len(stage_log) <= 7
  /\ \A i, j \in 1..Len(stage_log) : stage_log[i] = stage_log[j] => i = j
  /\ ReturnedOnSuccessRoute => stage_log = SuccessOrder
  /\ (pc \in {"returned", "report", "done"} /\ IsNone(exception) /\ stage_log # << >>
        /\ ~ReturnedOnSuccessRoute) => stage_log = FailureOrder

\* C32 witness: a run on the success route made the compiler call and the
\* evaluation call and returned after its seven stages
C32_Witness ==
  /\ ReturnedOnSuccessRoute
  /\ pc = "returned"
  /\ Len(stage_log) = 7
  /\ Len(calls) = 3

\* the condition under which maybe_compile is to call the compiler
CompileWanted(run_state) ==
  /\ Get(run_state, "plan_status", "") = "completed"
  /\ \/ ~Has(run_state, "flow_spec_payload")
     \/ /\ run_state["request_afl"]
        /\ ~Has(run_state, "afl_text")

\* C33: maybe_compile makes the compiler call exactly when plan_status is
\* completed and no flow spec was extracted yet, or AgentFlowLanguage was
\* requested and none has been produced; whenever it makes the call,
\* outputs.flow_spec_compiler is recorded, also when the compilation fails
\* or yields no flow spec; otherwise it makes no call and changes nothing.
C33_CompileExactlyWhenNeeded ==
  [][(pc = "pipeline" /\ current = "maybe_compile")
       => /\ (Len(calls') = Len(calls) + 1) <=> CompileWanted(state)
          /\ Len(calls') \in {Len(calls), Len(calls) + 1}
          /\ Len(calls') = Len(calls) + 1
               => /\ calls'[Len(calls')].kind = "compiler"
                  /\ Has(state', "outputs")
                  /\ Has(state'["outputs"], "flow_spec_compiler")
          /\ Len(calls') = Len(calls) => state' = state]_vars

\* the Result of the first adapter call of the run, from its process
PrimaryResult == AdapterRun(adapter_name, settings, prompt, calls[1].proc).value

\* a finished run wrote a completed document
CompletedDocumentWritten ==
  /\ pc = "done"
  /\ Len(written) = 1
  /\ written[1]["status"] = "completed"
  /\ calls # << >>
  /\ ~calls[1].raised

\* C34: in a successful run the primary node's outputs.message and
\* metrics.usage and the document's metadata.codex_events_count come from
\* the Result of the first adapter call only; the compiler call and the
\* self-evaluation call never overwrite them.
C34_PrimaryResultKept ==
  CompletedDocumentWritten
    => LET node == written[1]["nodes"][1]
       IN /\ node["outputs"]["message"] = PrimaryResult.message
          /\ node["outputs"]["events"] = PrimaryResult.events
          /\ node["metrics"]["usage"] = PrimaryResult.usage
          /\ IF PrimaryResult.events = << >>
             THEN ~Has(written[1], "metadata")
             ELSE /\ Has(written[1], "metadata")
                  /\ written[1]["metadata"]["codex_events_count"] = Len(PrimaryResult.events)

\* C34 witness: the compiler call and the evaluation call both returned a
\* message, events and usage of their own, other than the primary message
C34_Witness ==
  /\ CompletedDocumentWritten
  /\ Len(calls) = 3
  /\ ~calls[2].raised
  /\ ~calls[3].raised
  /\ PrimaryResult.usage # << >>
  /\ LET outputs == written[1]["nodes"][1]["outputs"]
     IN /\ Has(outputs, "flow_spec_compiler")
        /\ Has(outputs, "evaluation")
        /\ outputs["flow_spec_compiler"]["message"] # outputs["message"]
        /\ outputs["evaluation"]["raw_message"] # outputs["message"]

\* parse_evaluation_payload was applied to a response that is not JSON
TextParsed ==
  /\ pc = "applied"
  /\ current = "parse_evaluation_text"
  /\ IsNone(state.message.doc)

\* the number a line of the response offers as score: the first number of
\* a line that starts with score, or the value of a purely numeric line
LineScore(line) ==
  LET t == Normalized(line)
  IN IF t # << >> /\ Lower(Head(t)) = "score" THEN FirstNumber(t)
     ELSE IF Len(t) = 1 /\ IsNumeric(t[1]) THEN JNum(NumVal[t[1]])
     ELSE None
ScoreLinesOf(lines) == {i \in 1..Len(lines) : ~IsNone(LineScore(lines[i]))}

\* C35: when the evaluation response is not JSON, the heuristic parser
\* returns the number of the line that starts with score or is purely
\* numeric, wherever that line stands in the text, also when it comes after
\* the reason line.
C35_ScoreLineFoundAnywhere ==
  (TextParsed /\ Cardinality(ScoreLinesOf(state.lines)) = 1)
    => /\ ~result.outcome.raised
       /\ ~IsNone(result.outcome.value)
       /\ \A i \in ScoreLinesOf(state.lines) :
            result.outcome.value.score = LineScore(state.lines[i])

\* parse_evaluation_payload was applied to a response that parses as JSON
JsonTextParsed ==
  /\ pc = "applied"
  /\ current = "parse_evaluation_text"
  /\ ~IsNone(state.message.doc)
  /\ state.message.doc # BadJson

\* C36: parse_evaluation_payload never raises for a response text that
\* parses as JSON, also when the top-level value is not an object (a bare
\* number, a string, a list, null): it returns a result whose score is a
\* float, or none when the score is missing or invalid.
C36_JsonNeverRaises ==
  JsonTextParsed
    => /\ ~result.outcome.raised
       /\ \/ IsNone(result.outcome.value)
          \/ IsNone(result.outcome.value.score)
          \/ IsNum(result.outcome.value.score)

\* C37: a document with status failed has exactly one node, the primary,
\* rollup counts succeeded=0 and failed=1 and completion_percentage 0;
\* synthetic nodes appear only in completed documents and every synthetic
\* node has status succeeded.
C37_SyntheticNodesOnlyWhenCompleted ==
  \A d \in 1..Len(written) :
    LET document == written[d]
        nodes == document["nodes"]
    IN /\ document["status"] = "failed"
            => /\ Len(nodes) = 1
               /\ nodes[1]["id"] = PrimaryNodeId
               /\ document["rollup"]["counts"] = [succeeded |-> 0, failed |-> 1]
               /\ document["rollup"]["completion_percentage"] = 0
       /\ Len(nodes) > 1 => document["status"] = "completed"
       /\ \A i \in 2..Len(nodes) : nodes[i]["status"] = "succeeded"

\* C37 witness: the primary message carried a flow spec, a later stage
\* aborted the run, and the failed document holds the primary node alone
C37_Witness ==
  /\ pc = "done"
  /\ Len(written) = 1
  /\ written[1]["status"] = "failed"
  /\ Len(written[1]["nodes"]) = 1
  /\ calls # << >>
  /\ ~calls[1].raised
  /\ CarriesFlowSpec(PrimaryResult.message)

\* the flow spec payload extracted from the primary message, or None
PrimaryPayload == extract_flow_spec_from_message(PrimaryResult.message)

\* the compiler call was made although the primary message carried a flow
\* spec, and it raised or its response held no valid flow spec
CompilationFailedAfterExtraction ==
  /\ Len(calls) >= 2
  /\ ~calls[1].raised
  /\ calls[2].kind = "compiler"
  /\ ~IsNone(PrimaryPayload)
  /\ LET run == AdapterRun(adapter_name, settings, FlowSpecCompilerPrompt(prompt), calls[2].proc)
     IN run.raised \/ IsNone(extract_flow_spec_from_message(run.value.message))

\* C38: a flow spec extracted from the primary message is never lost to a
\* failed compilation: when the compiler call fails or returns no valid
\* flow spec, flow_spec_payload, outputs.flow_spec and
\* flow_spec_source = 'assistant' stay as parse_flow_spec left them, in the
\* run state and in the document written by a run that no other stage
\* aborted.
C38_ExtractedFlowSpecKept ==
  CompilationFailedAfterExtraction
    => /\ pc \in {"pipeline", "returned"}
            => /\ Get(state, "flow_spec_payload", None) = PrimaryPayload
               /\ state["outputs"]["flow_spec"] = PrimaryPayload["flow_spec"]
               /\ Get(state, "flow_spec_source", "") = "assistant"
       /\ (pc = "done" /\ (IsNone(exception) \/ stage_log[Len(stage_log)] = "maybe_compile"))
            => /\ Len(written) = 1
               /\ LET outputs == written[1]["nodes"][1]["outputs"]
                  IN /\ Has(outputs, "flow_spec")
                     /\ outputs["flow_spec"] = PrimaryPayload["flow_spec"]
                     /\ Has(outputs, "flow_spec_source")
                     /\ outputs["flow_spec_source"] = "assistant"

\* C39: every id listed in a node's depends_on is the id of a node of the
\* same plan document, also when a flow-spec edge names a source that is
\* not among the flow-spec nodes or whose node entry was skipped.
C39_NoDanglingDependency ==
  \A d \in 1..Len(written) :
    LET nodes == written[d]["nodes"]
        ids == {nodes[j]["id"] : j \in 1..Len(nodes)}
    IN \A i \in 1..Len(nodes) :
         \A k \in 1..Len(nodes[i]["depends_on"]) : nodes[i]["depends_on"][k] \in ids
====
